---------------------------- MODULE Spec2Model ----------------------------
(***************************************************************************)
(* A model of the extraction-and-resolution pipeline of openapi-from-source*)
(* (src/src/extractor/{mod,axum,actix}.rs, src/src/type_resolver.rs,       *)
(* src/src/schema_generator.rs).                                           *)
(*                                                                         *)
(* Strings whose characters the code inspects (route paths, attribute      *)
(* tokens) are sequences of one-character strings; identifiers, which the  *)
(* code only compares, are TLA+ strings.  An Option<T> is a sequence of    *)
(* length at most one: <<>> is None and <<x>> is Some(x).                  *)
(***************************************************************************)
EXTENDS Integers, Sequences, FiniteSets, TLC

VARIABLES
    parsed_files,     \* the batch of syntax trees handed to extract_routes
    framework,        \* which RouteExtractor runs: "axum" or "actix"
    pc,               \* position in extract_routes: "visit", "done"
    file_idx,         \* number of trees whose traversal has started
    work,             \* the traversal's pending nodes (head = next to visit)
    routes,           \* Visitor.routes
    current_prefix,   \* AxumVisitor.current_prefix
    current_scope,    \* ActixVisitor.current_scope
    functions,        \* Visitor.functions: fn name -> signature
    type_files,       \* TypeResolver.parsed_files
    type_cache,       \* TypeResolver.type_cache: name -> ResolvedType
    resolving_stack,  \* TypeResolver.resolving_stack
    schemas,          \* SchemaGenerator.schemas: name -> Schema
    stack,            \* call stack of the schema generator (head = top)
    ret,              \* value returned by the call that returned last
    status,           \* "idle", "running", "returned", "overflow"
    calls,            \* number of generate_schema requests made so far
    log,              \* what the session's callers were returned so far, in order
    earlier,          \* the outputs of an earlier run over the same trees, if any
    discovered,       \* the catalog's names in the order of their insertion
    iterated,         \* the names in the order build's iteration over the catalog gave
    run,              \* cli::run: its position, arguments and locals
    joined,           \* a combine_paths call: its arguments and each extractor's result
    builder           \* OpenApiBuilder.paths, and the routes cli::run adds to it

extractVars == <<parsed_files, framework, pc, file_idx, work, routes,
                 current_prefix, current_scope, functions>>
schemaVars == <<type_files, type_cache, resolving_stack, schemas, stack, ret,
                status, calls, log>>
vars == <<parsed_files, framework, pc, file_idx, work, routes, current_prefix,
          current_scope, functions, type_files, type_cache, resolving_stack,
          schemas, stack, ret, status, calls, log, earlier, discovered, iterated, run, joined, builder>>

\* no document is being built
BuilderOff == [all_routes |-> <<>>, idx |-> 0, paths |-> <<>>]

\* no combine_paths call is looked at
NotJoined == [prefix |-> <<>>, path |-> <<>>, axum |-> <<>>, actix |-> <<>>]

\* cli::run is not running
RunOff ==
    [pc |-> "off", args_framework |-> <<>>, frameworks |-> <<>>, idx |-> 0,
     all_routes |-> <<>>, warned |-> FALSE, output |-> <<>>]

----------------------------------------------------------------------------
(* Bounds of the model.                                                    *)

\* trees in one batch
MaxFiles == 2
\* typed arguments of a generated handler signature
MaxArgs == 2
\* frames the schema generator's call stack holds before it is exhausted
MaxStack == 12
\* generate_schema requests in one session
MaxCalls == 2

----------------------------------------------------------------------------
(* Sequences and character strings.                                        *)

Some(x) == <<x>>
None == <<>>
IsSome(o) == Len(o) > 0

RECURSIVE SeqsUpTo(_, _)
SeqsUpTo(S, n) ==
    IF n = 0 THEN {<<>>}
    ELSE LET shorter == SeqsUpTo(S, n - 1)
         IN  shorter \cup {Append(s, x) : s \in {t \in shorter : Len(t) = n - 1}, x \in S}

RECURSIVE Flatten(_)
Flatten(ss) == IF ss = <<>> THEN <<>> ELSE Head(ss) \o Flatten(Tail(ss))

\* str::trim_start_matches(c)
RECURSIVE trim_start_matches(_, _)
trim_start_matches(s, c) ==
    IF s # <<>> /\ Head(s) = c THEN trim_start_matches(Tail(s), c) ELSE s

\* str::trim_end_matches(c)
RECURSIVE trim_end_matches(_, _)
trim_end_matches(s, c) ==
    IF s # <<>> /\ s[Len(s)] = c
    THEN trim_end_matches(SubSeq(s, 1, Len(s) - 1), c)
    ELSE s

\* str::trim_matches(c)
trim_matches(s, c) == trim_end_matches(trim_start_matches(s, c), c)

\* str::trim(): the only white space of the model is " "
trim(s) == trim_matches(s, " ")

\* str::split(c): the pieces between the occurrences of c, empty ones included
RECURSIVE split(_, _)
split(s, c) ==
    IF \A i \in 1..Len(s) : s[i] # c
    THEN <<s>>
    ELSE LET i == CHOOSE j \in 1..Len(s) : s[j] = c /\ \A h \in 1..(j - 1) : s[h] # c
         IN  <<SubSeq(s, 1, i - 1)>> \o split(SubSeq(s, i + 1, Len(s)), c)

starts_with(s, c) == s # <<>> /\ Head(s) = c
ends_with(s, c) == s # <<>> /\ s[Len(s)] = c

\* str::to_lowercase on the identifiers of the model
to_lowercase(id) ==
    CASE id = "GET" -> "get"
      [] id = "Post" -> "post"
      [] OTHER -> id

----------------------------------------------------------------------------
(* extractor/mod.rs: TypeInfo, Parameter, RouteInfo.                       *)

TypeInfo_new(name) ==
    [name |-> name, is_generic |-> FALSE, generic_args |-> <<>>,
     is_option |-> FALSE, is_vec |-> FALSE]

TypeInfo_option(inner) ==
    [name |-> inner.name, is_generic |-> FALSE, generic_args |-> <<inner>>,
     is_option |-> TRUE, is_vec |-> FALSE]

TypeInfo_vec(inner) ==
    [name |-> inner.name, is_generic |-> FALSE, generic_args |-> <<inner>>,
     is_option |-> FALSE, is_vec |-> TRUE]

Parameter_new(name, location, type_info, required) ==
    [name |-> name, location |-> location, type_info |-> type_info,
     required |-> required]

\* the parameter names "path_params" and "query_params" of parse_extractors
PathParamsName == <<"p", "a", "t", "h", "_", "p", "a", "r", "a", "m", "s">>
QueryParamsName == <<"q", "u", "e", "r", "y", "_", "p", "a", "r", "a", "m", "s">>

RouteInfo_new(path, method, handler_name) ==
    [path |-> path, method |-> method, handler_name |-> handler_name,
     parameters |-> <<>>, request_body |-> None, response_type |-> None]

----------------------------------------------------------------------------
(* The syntax tree (syn), as far as the visitors look at it.               *)

\* syn::Type.  A path type keeps the identifier of its last segment and the
\* type arguments between its angle brackets.
TypePath(name, args) == [k |-> "Path", name |-> name, args |-> args]
TypeReference(elem) == [k |-> "Reference", name |-> "&", args |-> <<elem>>]
TypeTuple(elems) == [k |-> "Tuple", name |-> "()", args |-> elems]
TypeImplTrait == [k |-> "ImplTrait", name |-> "impl", args |-> <<>>]
TypeSlice(elem) == [k |-> "Slice", name |-> "[]", args |-> <<elem>>]

\* syn::FnArg
FnArgTyped(ty) == [k |-> "Typed", ty |-> ty]
FnArgReceiver == [k |-> "Receiver", ty |-> TypePath("Self", <<>>)]

\* syn::Signature: output is the Option of the declared return type
Signature(ident, inputs, output) ==
    [ident |-> ident, inputs |-> inputs, output |-> output]

\* syn::Attribute: the last segment of its path, the kind of its meta and,
\* for Meta::List, the characters of tokens.to_string()
Attribute(name, meta, tokens) == [name |-> name, meta |-> meta, tokens |-> tokens]

\* syn::Expr
ExprMethodCall(receiver, method, args) ==
    [k |-> "ExprMethodCall", receiver |-> receiver, method |-> method, args |-> args]
ExprCall(func, args) == [k |-> "ExprCall", func |-> func, args |-> args]
ExprPath(ident) == [k |-> "ExprPath", ident |-> ident]
ExprLitStr(value) == [k |-> "ExprLit", lit |-> "Str", value |-> value]
ExprLitInt == [k |-> "ExprLit", lit |-> "Int", value |-> <<>>]
ExprBlock(stmts) == [k |-> "ExprBlock", stmts |-> stmts]

\* syn::Item
ItemFn(attrs, sig, stmts) == [k |-> "ItemFn", attrs |-> attrs, sig |-> sig, stmts |-> stmts]

\* the children syn::visit's default walk visits, in its order
Children(node) ==
    CASE node.k = "ExprMethodCall" -> <<node.receiver>> \o node.args
      [] node.k = "ExprCall" -> <<node.func>> \o node.args
      [] node.k = "ExprBlock" -> node.stmts
      [] node.k = "ItemFn" -> node.stmts
      [] OTHER -> <<>>

----------------------------------------------------------------------------
(* extractor/axum.rs: AxumVisitor.                                         *)

Axum_extract_string_literal(expr) ==
    IF expr.k = "ExprLit" /\ expr.lit = "Str" THEN Some(expr.value) ELSE None

\* a combination that keeps the path's leading slashes
Axum_combine_paths_KeepSlashes(prefix, path) ==
    IF prefix = <<>> THEN path
    ELSE IF path = <<>> THEN trim_end_matches(prefix, "/")
    ELSE trim_end_matches(prefix, "/") \o <<"/">> \o path

Axum_combine_paths(prefix, path) ==
    IF prefix = <<>> THEN path
    ELSE LET p == trim_end_matches(prefix, "/")
             q == trim_start_matches(path, "/")
         IN  IF q = <<>> THEN p ELSE p \o <<"/">> \o q

Axum_parse_http_method(method) ==
    LET m == to_lowercase(method)
    IN  CASE m = "get" -> Some("Get")
          [] m = "post" -> Some("Post")
          [] m = "put" -> Some("Put")
          [] m = "delete" -> Some("Delete")
          [] m = "patch" -> Some("Patch")
          [] m = "head" -> Some("Head")
          [] m = "options" -> Some("Options")
          [] OTHER -> None

Axum_extract_handler_name_from_expr(expr) ==
    IF expr.k = "ExprPath" THEN expr.ident ELSE "unknown"

Axum_extract_handler_name(call_expr) ==
    IF Len(call_expr.args) > 0
    THEN Axum_extract_handler_name_from_expr(call_expr.args[1])
    ELSE "unknown"

\* path parameters that keep the segment's colon in their name
Axum_extract_path_parameters_KeepColon(path) ==
    LET segments == split(path, "/")
        param(segment) ==
            IF starts_with(segment, ":")
            THEN <<Parameter_new(segment, "Path", TypeInfo_new("String"), TRUE)>>
            ELSE <<>>
    IN  Flatten([i \in 1..Len(segments) |-> param(segments[i])])

Axum_extract_path_parameters(path) ==
    LET segments == split(path, "/")
        param(segment) ==
            IF starts_with(segment, ":")
            THEN <<Parameter_new(trim_start_matches(segment, ":"), "Path",
                                 TypeInfo_new("String"), TRUE)>>
            ELSE <<>>
    IN  Flatten([i \in 1..Len(segments) |-> param(segments[i])])

Axum_parse_route_method(expr, prefix) ==
    IF Len(expr.args) < 2 THEN None
    ELSE LET lit == Axum_extract_string_literal(expr.args[1])
         IN  IF ~IsSome(lit) THEN None
             ELSE LET full_path == Axum_combine_paths(prefix, lit[1])
                      call_expr == expr.args[2]
                  IN  IF call_expr.k = "ExprCall" /\ call_expr.func.k = "ExprPath"
                      THEN LET method == Axum_parse_http_method(call_expr.func.ident)
                           IN  IF IsSome(method)
                               THEN Some([RouteInfo_new(full_path, method[1],
                                              Axum_extract_handler_name(call_expr))
                                          EXCEPT !.parameters =
                                              Axum_extract_path_parameters(full_path)])
                               ELSE None
                      ELSE None

\* mutant: only the (path, handler) form is accepted
Axum_parse_shorthand_method_PathRequired(expr, prefix, method_name) ==
    IF Len(expr.args) = 0 THEN None
    ELSE LET method == Axum_parse_http_method(method_name)
             lit == Axum_extract_string_literal(expr.args[1])
         IN  IF ~IsSome(method) \/ ~IsSome(lit) THEN None
             ELSE LET full_path == Axum_combine_paths(prefix, lit[1])
                      handler_name ==
                          IF Len(expr.args) > 1
                          THEN Axum_extract_handler_name_from_expr(expr.args[2])
                          ELSE "unknown"
                  IN  Some([RouteInfo_new(full_path, method[1], handler_name)
                            EXCEPT !.parameters = Axum_extract_path_parameters(full_path)])

Axum_parse_shorthand_method(expr, prefix, method_name) ==
    IF Len(expr.args) = 0 THEN None
    ELSE LET method == Axum_parse_http_method(method_name)
             lit == Axum_extract_string_literal(expr.args[1])
         IN  IF ~IsSome(method) THEN None
             ELSE IF IsSome(lit)
             THEN LET full_path == Axum_combine_paths(prefix, lit[1])
                      handler_name ==
                          IF Len(expr.args) > 1
                          THEN Axum_extract_handler_name_from_expr(expr.args[2])
                          ELSE "unknown"
                  IN  Some([RouteInfo_new(full_path, method[1], handler_name)
                            EXCEPT !.parameters = Axum_extract_path_parameters(full_path)])
             ELSE Some([RouteInfo_new(prefix, method[1],
                            Axum_extract_handler_name_from_expr(expr.args[1]))
                        EXCEPT !.parameters = Axum_extract_path_parameters(prefix)])

Axum_parse_nest_method(expr, prefix) ==
    IF Len(expr.args) = 0 THEN None
    ELSE LET lit == Axum_extract_string_literal(expr.args[1])
         IN  IF IsSome(lit) THEN Some(Axum_combine_paths(prefix, lit[1])) ELSE None

\* parse_router_expr(&mut self, _expr, _prefix) has an empty body: the routes
\* it is given come back unchanged
Axum_parse_router_expr(rs, expr, prefix) == rs

\* mutant: the call's receiver chain is parsed with it, at every call of the chain
RECURSIVE Axum_parse_single_method_WholeChain(_, _, _)
Axum_parse_single_method_WholeChain(rs, expr, prefix) ==
    LET method_name == expr.method
        before == IF expr.receiver.k = "ExprMethodCall"
                  THEN Axum_parse_single_method_WholeChain(rs, expr.receiver, prefix)
                  ELSE rs
    IN  CASE method_name = "route" ->
                before \o Axum_parse_route_method(expr, prefix)
          [] method_name \in {"get", "post", "put", "delete", "patch", "head", "options"} ->
                before \o Axum_parse_shorthand_method(expr, prefix, method_name)
          [] OTHER -> before

\* parse_single_method: the routes after the call
Axum_parse_single_method(rs, expr, prefix) ==
    LET method_name == expr.method
    IN  CASE method_name = "route" ->
                rs \o Axum_parse_route_method(expr, prefix)
          [] method_name \in {"get", "post", "put", "delete", "patch", "head", "options"} ->
                rs \o Axum_parse_shorthand_method(expr, prefix, method_name)
          [] method_name = "nest" ->
                LET nested_prefix == Axum_parse_nest_method(expr, prefix)
                IN  IF IsSome(nested_prefix) /\ Len(expr.args) > 1
                    THEN Axum_parse_router_expr(rs, expr.args[2], nested_prefix[1])
                    ELSE rs
          [] OTHER -> rs

RECURSIVE Axum_extract_type_info(_)
Axum_extract_type_info(ty) ==
    IF ty.k = "Path"
    THEN IF ty.name = "Option" /\ Len(ty.args) > 0
         THEN TypeInfo_option(Axum_extract_type_info(ty.args[1]))
         ELSE IF ty.name = "Vec" /\ Len(ty.args) > 0
         THEN TypeInfo_vec(Axum_extract_type_info(ty.args[1]))
         ELSE TypeInfo_new(ty.name)
    ELSE TypeInfo_new("unknown")

Axum_parse_extractor_type(ty) ==
    IF ty.k = "Path" /\ ty.name \in {"Json", "Path", "Query"} /\ Len(ty.args) > 0
    THEN Some(<<ty.name, Axum_extract_type_info(ty.args[1])>>)
    ELSE None

\* parse_extractors: <<parameters, request_body>>, the loop over fn_sig.inputs
\* unrolled from the first input on
RECURSIVE Axum_parse_extractors_from(_, _, _)
Axum_parse_extractors_from(inputs, parameters, request_body) ==
    IF inputs = <<>> THEN <<parameters, request_body>>
    ELSE LET input == Head(inputs)
             ext == IF input.k = "Typed" THEN Axum_parse_extractor_type(input.ty) ELSE None
         IN  IF ~IsSome(ext)
             THEN Axum_parse_extractors_from(Tail(inputs), parameters, request_body)
             ELSE CASE ext[1][1] = "Json" ->
                         Axum_parse_extractors_from(Tail(inputs), parameters, Some(ext[1][2]))
                    [] ext[1][1] = "Path" ->
                         Axum_parse_extractors_from(Tail(inputs),
                             Append(parameters,
                                 Parameter_new(PathParamsName, "Path", ext[1][2], TRUE)),
                             request_body)
                    [] ext[1][1] = "Query" ->
                         Axum_parse_extractors_from(Tail(inputs),
                             Append(parameters,
                                 Parameter_new(QueryParamsName, "Query", ext[1][2], FALSE)),
                             request_body)
                    [] OTHER ->
                         Axum_parse_extractors_from(Tail(inputs), parameters, request_body)

\* mutant: a Query<T> argument gives a required parameter
Axum_parse_extractors_QueryRequired(fn_sig) ==
    LET ex == Axum_parse_extractors_from(fn_sig.inputs, <<>>, None)
    IN  <<[j \in 1..Len(ex[1]) |-> [ex[1][j] EXCEPT !.required = TRUE]], ex[2]>>

Axum_parse_extractors(fn_sig) == Axum_parse_extractors_from(fn_sig.inputs, <<>>, None)

Axum_extract_json_from_type(ty) ==
    IF ty.k = "Path" /\ ty.name = "Json" /\ Len(ty.args) > 0
    THEN Some(Axum_extract_type_info(ty.args[1]))
    ELSE None

\* mutant: Result<T, E> is not unwrapped
Axum_parse_return_type_NoResultUnwrap(ty) ==
    CASE ty.k = "ImplTrait" -> None
      [] ty.k = "Reference" -> Some(Axum_extract_type_info(ty.args[1]))
      [] ty.k = "Path" ->
            IF ty.name = "Json" /\ Len(ty.args) > 0
            THEN Some(Axum_extract_type_info(ty.args[1]))
            ELSE Some(Axum_extract_type_info(ty))
      [] ty.k = "Tuple" ->
            LET found == {i \in 1..Len(ty.args) : IsSome(Axum_extract_json_from_type(ty.args[i]))}
            IN  IF found = {} THEN None
                ELSE Axum_extract_json_from_type(
                         ty.args[CHOOSE i \in found : \A j \in found : i <= j])
      [] OTHER -> None

RECURSIVE Axum_parse_return_type(_)
Axum_parse_return_type(ty) ==
    CASE ty.k = "ImplTrait" -> None
      [] ty.k = "Reference" -> Some(Axum_extract_type_info(ty.args[1]))
      [] ty.k = "Path" ->
            IF ty.name = "Json" /\ Len(ty.args) > 0
            THEN Some(Axum_extract_type_info(ty.args[1]))
            ELSE IF ty.name = "Result" /\ Len(ty.args) > 0
            THEN Axum_parse_return_type(ty.args[1])
            ELSE Some(Axum_extract_type_info(ty))
      [] ty.k = "Tuple" ->
            LET found == {i \in 1..Len(ty.args) : IsSome(Axum_extract_json_from_type(ty.args[i]))}
            IN  IF found = {} THEN None
                ELSE Axum_extract_json_from_type(
                         ty.args[CHOOSE i \in found : \A j \in found : i <= j])
      [] OTHER -> None

Axum_parse_response_type(fn_sig) ==
    IF fn_sig.output = None THEN None ELSE Axum_parse_return_type(fn_sig.output[1])

\* mutant: the extractor-derived parameters replace the path-derived ones
Axum_analyze_route_Replace(route, fns) ==
    IF route.handler_name \in DOMAIN fns
    THEN LET fn_sig == fns[route.handler_name]
             ex == Axum_parse_extractors(fn_sig)
         IN  [route EXCEPT !.parameters = ex[1],
                           !.request_body = ex[2],
                           !.response_type = Axum_parse_response_type(fn_sig)]
    ELSE route

\* analyze_handlers: the routes after the loop, route idx from 1 on
Axum_analyze_route(route, fns) ==
    IF route.handler_name \in DOMAIN fns
    THEN LET fn_sig == fns[route.handler_name]
             ex == Axum_parse_extractors(fn_sig)
         IN  [route EXCEPT !.parameters = route.parameters \o ex[1],
                           !.request_body = ex[2],
                           !.response_type = Axum_parse_response_type(fn_sig)]
    ELSE route

\* mutant: a route whose handler is unknown is dropped
Axum_analyze_handlers_DropUnknown(rs, fns) ==
    SelectSeq([idx \in 1..Len(rs) |-> Axum_analyze_route(rs[idx], fns)],
              LAMBDA route : route.handler_name \in DOMAIN fns)

Axum_analyze_handlers(rs, fns) ==
    [idx \in 1..Len(rs) |-> Axum_analyze_route(rs[idx], fns)]

----------------------------------------------------------------------------
(* extractor/actix.rs: ActixVisitor.                                       *)

Actix_parse_http_method(method) ==
    LET m == to_lowercase(method)
    IN  CASE m = "get" -> Some("Get")
          [] m = "post" -> Some("Post")
          [] m = "put" -> Some("Put")
          [] m = "delete" -> Some("Delete")
          [] m = "patch" -> Some("Patch")
          [] m = "head" -> Some("Head")
          [] m = "options" -> Some("Options")
          [] OTHER -> None

Actix_extract_path_from_tokens(tokens) ==
    LET cleaned == trim_matches(trim(tokens), "\"")
    IN  IF cleaned = <<>> THEN None ELSE Some(cleaned)

\* parse_route_macro: the Option of <<method, path>>
Actix_parse_route_macro(attr) ==
    LET method == Actix_parse_http_method(attr.name)
        path == IF attr.meta = "List" THEN Actix_extract_path_from_tokens(attr.tokens)
                ELSE None
    IN  IF IsSome(method) /\ IsSome(path) THEN Some(<<method[1], path[1]>>) ELSE None

Actix_combine_paths(scope, path) ==
    IF scope = <<>> THEN path
    ELSE LET p == trim_end_matches(scope, "/")
             q == trim_start_matches(path, "/")
         IN  IF q = <<>> THEN p ELSE p \o <<"/">> \o q

Actix_extract_path_parameters(path) ==
    LET segments == split(path, "/")
        param(segment) ==
            IF starts_with(segment, "{") /\ ends_with(segment, "}")
            THEN <<Parameter_new(trim_end_matches(trim_start_matches(segment, "{"), "}"),
                                 "Path", TypeInfo_new("String"), TRUE)>>
            ELSE <<>>
    IN  Flatten([i \in 1..Len(segments) |-> param(segments[i])])

\* find_route_macros: the routes after the loop over item_fn.attrs
RECURSIVE Actix_find_route_macros_from(_, _, _, _)
Actix_find_route_macros_from(rs, attrs, fn_name, scope) ==
    IF attrs = <<>> THEN rs
    ELSE LET mp == Actix_parse_route_macro(Head(attrs))
         IN  IF IsSome(mp)
             THEN LET full_path == Actix_combine_paths(scope, mp[1][2])
                  IN  Actix_find_route_macros_from(
                          Append(rs, [RouteInfo_new(full_path, mp[1][1], fn_name)
                                      EXCEPT !.parameters =
                                          Actix_extract_path_parameters(full_path)]),
                          Tail(attrs), fn_name, scope)
             ELSE Actix_find_route_macros_from(rs, Tail(attrs), fn_name, scope)

Actix_find_route_macros(rs, item_fn, scope) ==
    Actix_find_route_macros_from(rs, item_fn.attrs, item_fn.sig.ident, scope)

RECURSIVE Actix_extract_type_info(_)
Actix_extract_type_info(ty) ==
    IF ty.k = "Path"
    THEN IF ty.name = "Option" /\ Len(ty.args) > 0
         THEN TypeInfo_option(Actix_extract_type_info(ty.args[1]))
         ELSE IF ty.name = "Vec" /\ Len(ty.args) > 0
         THEN TypeInfo_vec(Actix_extract_type_info(ty.args[1]))
         ELSE TypeInfo_new(ty.name)
    ELSE TypeInfo_new("unknown")

Actix_parse_extractor_type(ty) ==
    IF ty.k = "Path" /\ ty.name \in {"Json", "Path", "Query"} /\ Len(ty.args) > 0
    THEN Some(<<ty.name, Actix_extract_type_info(ty.args[1])>>)
    ELSE None

RECURSIVE Actix_parse_extractors_from(_, _, _)
Actix_parse_extractors_from(inputs, parameters, request_body) ==
    IF inputs = <<>> THEN <<parameters, request_body>>
    ELSE LET input == Head(inputs)
             ext == IF input.k = "Typed" THEN Actix_parse_extractor_type(input.ty) ELSE None
         IN  IF ~IsSome(ext)
             THEN Actix_parse_extractors_from(Tail(inputs), parameters, request_body)
             ELSE CASE ext[1][1] = "Json" ->
                         Actix_parse_extractors_from(Tail(inputs), parameters, Some(ext[1][2]))
                    [] ext[1][1] = "Path" ->
                         Actix_parse_extractors_from(Tail(inputs),
                             Append(parameters,
                                 Parameter_new(PathParamsName, "Path", ext[1][2], TRUE)),
                             request_body)
                    [] ext[1][1] = "Query" ->
                         Actix_parse_extractors_from(Tail(inputs),
                             Append(parameters,
                                 Parameter_new(QueryParamsName, "Query", ext[1][2], FALSE)),
                             request_body)
                    [] OTHER ->
                         Actix_parse_extractors_from(Tail(inputs), parameters, request_body)

Actix_parse_extractors(fn_sig) == Actix_parse_extractors_from(fn_sig.inputs, <<>>, None)

\* analyze_handlers: parameters and request_body are assigned, response_type
\* is not
Actix_analyze_route(route, fns) ==
    IF route.handler_name \in DOMAIN fns
    THEN LET ex == Actix_parse_extractors(fns[route.handler_name])
         IN  [route EXCEPT !.parameters = route.parameters \o ex[1],
                           !.request_body = ex[2]]
    ELSE route

Actix_analyze_handlers(rs, fns) ==
    [idx \in 1..Len(rs) |-> Actix_analyze_route(rs[idx], fns)]

Actix_extract_string_literal(expr) ==
    IF expr.k = "ExprLit" /\ expr.lit = "Str" THEN Some(expr.value) ELSE None

Actix_extract_scope_path(expr) ==
    IF Len(expr.args) = 0 THEN None ELSE Actix_extract_string_literal(expr.args[1])

----------------------------------------------------------------------------
(* Input trees.                                                            *)

PathApi == <<"/", "a", "p", "i">>
PathV1 == <<"/", "v", "1", "/">>
PathUsers == <<"/", "u", "s", "e", "r", "s">>
PathUsersId == <<"/", "u", "s", "e", "r", "s", "/", ":", "i", "d">>
PathUsersIdBraces == <<"/", "u", "s", "e", "r", "s", "/", "{", "i", "d", "}">>
PathProfile == <<"p", "r", "o", "f", "i", "l", "e">>
PathHealth == <<"/", "h", "e", "a", "l", "t", "h">>
Quoted(path) == <<"\"">> \o path \o <<"\"">>

T(name) == TypePath(name, <<>>)
G(name, arg) == TypePath(name, <<arg>>)

\* the types a handler argument is declared with
ArgTypes ==
    { G("Json", T("CreateUser")),
      G("Json", G("Vec", T("Item"))),
      G("Path", T("u32")),
      G("Query", T("Pagination")),
      G("Query", G("Option", G("Vec", T("Filter")))),
      G("Path", TypeTuple(<<T("u32"), T("String")>>)),
      G("State", T("AppState")),
      T("Json") }

\* the return types a handler is declared with; None is no declared type
ReturnTypes ==
    { None,
      Some(G("Json", T("User"))),
      Some(TypePath("Result", <<G("Json", T("User")), T("String")>>)),
      Some(TypePath("Result", <<TypePath("Result", <<G("Json", T("User")), T("E")>>), T("E")>>)),
      Some(TypeTuple(<<T("StatusCode"), G("Json", T("CreatedUser"))>>)),
      Some(TypePath("Result", <<TypeTuple(<<T("StatusCode"), G("Json", T("User"))>>), T("E")>>)),
      Some(TypeTuple(<<T("StatusCode"), T("String")>>)),
      Some(G("Json", G("Vec", T("User")))),
      Some(TypeReference(T("str"))),
      Some(TypeImplTrait),
      Some(T("HttpResponse")),
      Some(G("Option", T("User"))),
      Some(TypeSlice(T("u8"))) }

RouterNew == ExprCall(ExprPath("new"), <<>>)
Route(receiver, path, method, handler) ==
    ExprMethodCall(receiver, "route",
                   <<ExprLitStr(path), ExprCall(ExprPath(method), <<ExprPath(handler)>>)>>)

\* one tree declaring a handler with the given signature, routed in both
\* styles: #[get("/users/{id}")] on the handler, and
\* Router::new().route("/users/:id", get(get_user)) in fn app
HandlerFile(inputs, output) ==
    [items |->
        << ItemFn(<<Attribute("get", "List", Quoted(PathUsersIdBraces))>>,
                  Signature("get_user", inputs, output), <<>>),
           ItemFn(<<>>, Signature("app", <<>>, Some(T("Router"))),
                  <<Route(RouterNew, PathUsersId, "get", "get_user")>>) >>]

DefaultInputs == <<FnArgTyped(G("Path", T("u32"))), FnArgTyped(G("Query", T("Pagination")))>>
DefaultOutput == Some(TypePath("Result", <<G("Json", T("User")), T("String")>>))

SignatureFiles ==
    {HandlerFile([i \in 1..Len(tys) |-> FnArgTyped(tys[i])], DefaultOutput) :
        tys \in SeqsUpTo(ArgTypes, MaxArgs)}
    \cup {HandlerFile(<<FnArgReceiver, FnArgTyped(G("Json", T("CreateUser")))>>, DefaultOutput)}
    \cup {HandlerFile(DefaultInputs, output) : output \in ReturnTypes}

\* handlers only: get_user, list_users, and create_user with a method attribute
FileHandlers ==
    [items |->
        << ItemFn(<<>>, Signature("get_user", DefaultInputs, DefaultOutput), <<>>),
           ItemFn(<<>>, Signature("list_users", <<>>, Some(G("Json", G("Vec", T("User"))))), <<>>),
           ItemFn(<<Attribute("derive", "List", <<"D">>), Attribute("Post", "List", Quoted(PathUsers)),
                    Attribute("get", "Path", <<>>)>>,
                  Signature("create_user", <<FnArgTyped(G("Json", T("CreateUser")))>>,
                            Some(T("HttpResponse"))), <<>>) >>]

\* Router::new().route("/users/:id", get(get_user)).route("/users", get(list_users))
\*              .route("/health", GET(missing))
FileRouter ==
    [items |->
        << ItemFn(<<>>, Signature("app", <<>>, Some(T("Router"))),
                  <<Route(Route(Route(RouterNew, PathUsersId, "get", "get_user"),
                                PathUsers, "get", "list_users"),
                          PathHealth, "GET", "missing")>>) >>]

\* Router::new().nest("/api", Router::new().route("/users", get(list_users)))
FileNest ==
    [items |->
        << ItemFn(<<>>, Signature("app", <<>>, Some(T("Router"))),
                  <<ExprMethodCall(RouterNew, "nest",
                        <<ExprLitStr(PathApi),
                          Route(RouterNew, PathUsers, "get", "list_users")>>)>>) >>]

\* Router::new().nest("/api", Router::new().nest("/v1/", Router::new().get("profile", get_user)))
\*              .post(create_user)
FileNestDeep ==
    [items |->
        << ItemFn(<<>>, Signature("api", <<>>, Some(T("Router"))),
                  <<ExprMethodCall(
                        ExprMethodCall(RouterNew, "nest",
                            <<ExprLitStr(PathApi),
                              ExprMethodCall(RouterNew, "nest",
                                  <<ExprLitStr(PathV1),
                                    ExprMethodCall(RouterNew, "get",
                                        <<ExprLitStr(PathProfile), ExprPath("get_user")>>)>>)>>),
                        "post", <<ExprPath("create_user")>>)>>) >>]

\* attribute-routed handlers declared inside .scope(..) method calls:
\*   app.scope("/api", { #[get("/users/{id}")] fn get_user(..) {}
\*                       app.scope("/v1/", { #[get("profile")] fn get_profile() {} });
\*                       #[post("/users")] fn create_user(..) {} })
\*      .scope(1).service(health)
FileScope ==
    [items |->
        << ItemFn(<<>>, Signature("config", <<FnArgTyped(T("App"))>>, None),
                  <<ExprMethodCall(
                        ExprMethodCall(
                            ExprMethodCall(ExprPath("app"), "scope",
                                <<ExprLitStr(PathApi),
                                  ExprBlock(
                                    << ItemFn(<<Attribute("get", "List", Quoted(PathUsersIdBraces))>>,
                                              Signature("get_user",
                                                        <<FnArgTyped(G("Path", T("u32")))>>,
                                                        Some(G("Json", T("User")))), <<>>),
                                       ExprMethodCall(ExprPath("app"), "scope",
                                           <<ExprLitStr(PathV1),
                                             ExprBlock(
                                               <<ItemFn(<<Attribute("get", "List", Quoted(PathProfile))>>,
                                                        Signature("get_profile", <<>>,
                                                                  Some(T("HttpResponse"))), <<>>)>>)>>),
                                       ItemFn(<<Attribute("post", "List", Quoted(PathUsers))>>,
                                              Signature("create_user",
                                                        <<FnArgTyped(G("Json", T("CreateUser")))>>,
                                                        Some(T("HttpResponse"))), <<>>) >>)>>),
                            "scope", <<ExprLitInt>>),
                        "service", <<ExprPath("health")>>)>>),
           ItemFn(<<Attribute("get", "List", Quoted(PathHealth))>>,
                  Signature("health", <<>>, Some(TypeReference(T("str")))), <<>>) >>]

\* a second declaration of get_user, with another signature
FileDuplicate ==
    [items |->
        << ItemFn(<<Attribute("get", "List", Quoted(PathUsers))>>,
                  Signature("get_user", <<FnArgTyped(G("Json", T("Patch")))>>,
                            Some(G("Json", T("Account")))), <<>>) >>]

PathTask == <<"/", "o", "/", ":", "o", "r", "g", "/", "p", "/", ":", "i", "d">>
PathTaskBraces == <<"/", "o", "/", "{", "o", "r", "g", "}", "/", "p", "/", "{", "i", "d", "}">>

\* #[get("/o/{org}/p/{id}")] async fn get_task() -> HttpResponse
\* fn tasks() -> Router { Router::new().route("/o/:org/p/:id", get(get_task)) }
FileComplex ==
    [items |->
        << ItemFn(<<Attribute("get", "List", Quoted(PathTaskBraces))>>,
                  Signature("get_task", <<>>, Some(T("HttpResponse"))), <<>>),
           ItemFn(<<>>, Signature("tasks", <<>>, Some(T("Router"))),
                  <<Route(RouterNew, PathTask, "get", "get_task")>>) >>]

PathSlashProfile == <<"/", "p", "r", "o", "f", "i", "l", "e">>

\* #[get("/profile")] async fn get_profile() -> HttpResponse
\* fn config(cfg: &mut ServiceConfig) {
\*     cfg.service(web::scope("/api").service(web::scope("/v1").service(get_profile)));
\* }
FileWebScope ==
    [items |->
        << ItemFn(<<Attribute("get", "List", Quoted(PathSlashProfile))>>,
                  Signature("get_profile", <<>>, Some(T("HttpResponse"))), <<>>),
           ItemFn(<<>>, Signature("config", <<FnArgTyped(T("ServiceConfig"))>>, None),
                  <<ExprMethodCall(ExprPath("cfg"), "service",
                        <<ExprMethodCall(
                              ExprCall(ExprPath("scope"), <<ExprLitStr(PathApi)>>),
                              "service",
                              <<ExprMethodCall(
                                    ExprCall(ExprPath("scope"), <<ExprLitStr(PathV1)>>),
                                    "service", <<ExprPath("get_profile")>>)>>)>>)>>) >>]

\* #[get("")] async fn index() -> HttpResponse {
\*     async fn list_users(q: Query<Filter>) -> Json<Page> { .. }
\* }
\* async fn list_users(b: Json<Patch>) -> Json<Account> { .. }
FileIndex ==
    [items |->
        << ItemFn(<<Attribute("get", "List", Quoted(<<>>))>>,
                  Signature("index", <<>>, Some(T("HttpResponse"))),
                  <<ItemFn(<<>>, Signature("list_users", <<FnArgTyped(G("Query", T("Filter")))>>,
                                           Some(G("Json", T("Page")))), <<>>)>>),
           ItemFn(<<>>, Signature("list_users", <<FnArgTyped(G("Json", T("Patch")))>>,
                                  Some(G("Json", T("Account")))), <<>>) >>]

\* Router::new().route("/users", post(create_user)).route("/users/:id", put(update_user))
\*     .route("/users/:id", delete(delete_user)).route("/users", post(create_user))
FileMethods ==
    [items |->
        << ItemFn(<<>>, Signature("app", <<>>, Some(T("Router"))),
                  <<Route(Route(Route(Route(RouterNew, PathUsers, "post", "create_user"),
                                      PathUsersId, "put", "update_user"),
                                PathUsersId, "delete", "delete_user"),
                          PathUsers, "post", "create_user")>>) >>]

StructureFiles ==
    {FileHandlers, FileRouter, FileNest, FileNestDeep, FileScope, FileDuplicate, FileComplex,
     FileWebScope, FileIndex, FileMethods}

Batches ==
    {<<f>> : f \in SignatureFiles} \cup (SeqsUpTo(StructureFiles, MaxFiles) \ {<<>>})

----------------------------------------------------------------------------
(* extract_routes: pass 1, one step per visited node, and pass 2.          *)

\* mutant: an entry the map already has is kept
Insert_KeepFirst(map, key, value) ==
    [n \in DOMAIN map \cup {key} |-> IF n \in DOMAIN map THEN map[n] ELSE value]

\* HashMap::insert
Insert(map, key, value) ==
    [n \in DOMAIN map \cup {key} |-> IF n = key THEN value ELSE map[n]]

Visit(nodes) == [i \in 1..Len(nodes) |-> [op |-> "visit", node |-> nodes[i]]]

Visiting(kinds) ==
    /\ pc = "visit"
    /\ work # <<>>
    /\ Head(work).op = "visit"
    /\ Head(work).node.k \in kinds

\* mutant: the function table is started afresh for every tree
visit_file_PerFileTable ==
    /\ pc = "visit"
    /\ work = <<>>
    /\ file_idx < Len(parsed_files)
    /\ file_idx' = file_idx + 1
    /\ work' = Visit(parsed_files[file_idx + 1].items)
    /\ functions' = <<>>
    /\ UNCHANGED <<parsed_files, framework, pc, routes, current_prefix, current_scope>>
    /\ UNCHANGED <<schemaVars, earlier, iterated, discovered, run, joined, builder>>

\* visitor.visit_file(&parsed_file.syntax_tree), for the next tree of the batch
visit_file ==
    /\ pc = "visit"
    /\ work = <<>>
    /\ file_idx < Len(parsed_files)
    /\ file_idx' = file_idx + 1
    /\ work' = Visit(parsed_files[file_idx + 1].items)
    /\ UNCHANGED <<parsed_files, framework, pc, routes, current_prefix, current_scope, functions>>
    /\ UNCHANGED <<schemaVars, earlier, iterated, discovered, run, joined, builder>>

\* syn::visit's walk of a node the visitor does not override
visit_default ==
    /\ Visiting({"ExprCall", "ExprPath", "ExprLit", "ExprBlock", "ItemUse"})
    /\ work' = Visit(Children(Head(work).node)) \o Tail(work)
    /\ UNCHANGED <<parsed_files, framework, pc, file_idx, routes, current_prefix,
                   current_scope, functions>>
    /\ UNCHANGED <<schemaVars, earlier, iterated, discovered, run, joined, builder>>

Axum_visit_expr_method_call ==
    /\ framework = "axum"
    /\ Visiting({"ExprMethodCall"})
    /\ LET node == Head(work).node
       IN  /\ routes' = IF node.method \in {"route", "get", "post", "put", "delete",
                                            "patch", "head", "options", "nest"}
                        THEN Axum_parse_single_method(routes, node, current_prefix)
                        ELSE routes
           /\ work' = Visit(Children(node)) \o Tail(work)
    /\ UNCHANGED <<parsed_files, framework, pc, file_idx, current_prefix, current_scope,
                   functions>>
    /\ UNCHANGED <<schemaVars, earlier, iterated, discovered, run, joined, builder>>

Axum_visit_item_fn ==
    /\ framework = "axum"
    /\ Visiting({"ItemFn"})
    /\ LET node == Head(work).node
       IN  /\ functions' = Insert(functions, node.sig.ident, node.sig)
           /\ work' = Visit(Children(node)) \o Tail(work)
    /\ UNCHANGED <<parsed_files, framework, pc, file_idx, routes, current_prefix,
                   current_scope>>
    /\ UNCHANGED <<schemaVars, earlier, iterated, discovered, run, joined, builder>>

Actix_visit_item_fn ==
    /\ framework = "actix"
    /\ Visiting({"ItemFn"})
    /\ LET node == Head(work).node
       IN  /\ functions' = Insert(functions, node.sig.ident, node.sig)
           /\ routes' = Actix_find_route_macros(routes, node, current_scope)
           /\ work' = Visit(Children(node)) \o Tail(work)
    /\ UNCHANGED <<parsed_files, framework, pc, file_idx, current_prefix, current_scope>>
    /\ UNCHANGED <<schemaVars, earlier, iterated, discovered, run, joined, builder>>

\* visit_expr_method_call up to its walk of the node's children
Actix_visit_expr_method_call ==
    /\ framework = "actix"
    /\ Visiting({"ExprMethodCall"})
    /\ LET node == Head(work).node
           scope_path == IF node.method = "scope" THEN Actix_extract_scope_path(node) ELSE None
       IN  IF IsSome(scope_path)
           THEN /\ current_scope' = Actix_combine_paths(current_scope, scope_path[1])
                /\ work' = Visit(Children(node))
                           \o <<[op |-> "restore", node |-> node, old_scope |-> current_scope]>>
                           \o Tail(work)
           ELSE /\ current_scope' = current_scope
                /\ work' = Visit(Children(node)) \o Tail(work)
    /\ UNCHANGED <<parsed_files, framework, pc, file_idx, routes, current_prefix, functions>>
    /\ UNCHANGED <<schemaVars, earlier, iterated, discovered, run, joined, builder>>

\* mutant: the old scope is not restored
Actix_visit_expr_method_call_return_NoRestore ==
    /\ pc = "visit"
    /\ work # <<>>
    /\ Head(work).op = "restore"
    /\ work' = Tail(work)
    /\ UNCHANGED <<parsed_files, framework, pc, file_idx, routes, current_prefix,
                   current_scope, functions>>
    /\ UNCHANGED <<schemaVars, earlier, iterated, discovered, run, joined, builder>>

\* visit_expr_method_call after the walk of a .scope(..) call's children
Actix_visit_expr_method_call_return ==
    /\ pc = "visit"
    /\ work # <<>>
    /\ Head(work).op = "restore"
    /\ current_scope' = Head(work).old_scope
    /\ work' = Tail(work)
    /\ UNCHANGED <<parsed_files, framework, pc, file_idx, routes, current_prefix, functions>>
    /\ UNCHANGED <<schemaVars, earlier, iterated, discovered, run, joined, builder>>

Traversed == pc = "visit" /\ work = <<>> /\ file_idx = Len(parsed_files)

Axum_extract_routes_pass2 ==
    /\ framework = "axum"
    /\ Traversed
    /\ routes' = Axum_analyze_handlers(routes, functions)
    /\ pc' = "done"
    /\ UNCHANGED <<parsed_files, framework, file_idx, work, current_prefix, current_scope,
                   functions>>
    /\ UNCHANGED <<schemaVars, earlier, iterated, discovered, run, joined, builder>>

Actix_extract_routes_pass2 ==
    /\ framework = "actix"
    /\ Traversed
    /\ routes' = Actix_analyze_handlers(routes, functions)
    /\ pc' = "done"
    /\ UNCHANGED <<parsed_files, framework, file_idx, work, current_prefix, current_scope,
                   functions>>
    /\ UNCHANGED <<schemaVars, earlier, iterated, discovered, run, joined, builder>>

SchemaIdle ==
    /\ type_files = <<>>
    /\ type_cache = <<>>
    /\ resolving_stack = {}
    /\ schemas = <<>>
    /\ stack = <<>>
    /\ ret = <<>>
    /\ status = "idle"
    /\ calls = 0
    /\ log = <<>>

\* AxumVisitor::new() / ActixVisitor::new(), and the batch
InitExtract ==
    /\ parsed_files \in Batches
    /\ framework \in {"axum", "actix"}
    /\ pc = "visit"
    /\ file_idx = 0
    /\ work = <<>>
    /\ routes = <<>>
    /\ current_prefix = <<>>
    /\ current_scope = <<>>
    /\ functions = <<>>
    /\ SchemaIdle
    /\ earlier = <<>>
    /\ discovered = <<>>
    /\ iterated = <<>>
    /\ joined = NotJoined
    /\ builder = BuilderOff
    /\ run = RunOff

NextExtract ==
    \/ visit_file
    \/ visit_default
    \/ Axum_visit_expr_method_call
    \/ Axum_visit_item_fn
    \/ Actix_visit_item_fn
    \/ Actix_visit_expr_method_call
    \/ Actix_visit_expr_method_call_return
    \/ Axum_extract_routes_pass2
    \/ Actix_extract_routes_pass2

SpecExtract == InitExtract /\ [][NextExtract]_vars

----------------------------------------------------------------------------
(* Properties of the route extractors.                                     *)

AllItems == Flatten([i \in 1..Len(parsed_files) |-> parsed_files[i].items])

\* the signatures of the function declarations below the given nodes
RECURSIVE FnSigs(_)
FnSigs(nodes) ==
    IF nodes = <<>> THEN {}
    ELSE (IF Head(nodes).k = "ItemFn" THEN {Head(nodes).sig} ELSE {})
         \cup FnSigs(Children(Head(nodes))) \cup FnSigs(Tail(nodes))

DeclaredSigs(name) == {sig \in FnSigs(AllItems) : sig.ident = name}

HandlerFound(route) == route.handler_name \in DOMAIN functions

\* prefix and path joined with exactly one "/" between non-empty parts
Join(prefix, path) ==
    LET p == trim_end_matches(prefix, "/")
        q == trim_start_matches(path, "/")
    IN  IF prefix = <<>> THEN path ELSE IF q = <<>> THEN p ELSE p \o <<"/">> \o q

PathsOf(rs) == [i \in 1..Len(rs) |-> rs[i].path]

\* The paths the routes below the given nodes are to have, in traversal order,
\* when every enclosing .nest(prefix, router) (for its router argument) and
\* every enclosing .scope(path) contributes its prefix.
RECURSIVE NestedPaths(_, _)
NestedPaths(nodes, prefix) ==
    IF nodes = <<>> THEN <<>>
    ELSE LET node == Head(nodes)
             lit == IF node.k = "ExprMethodCall" /\ Len(node.args) > 0
                       /\ node.args[1].k = "ExprLit" /\ node.args[1].lit = "Str"
                    THEN Some(node.args[1].value) ELSE None
             own == CASE framework = "axum" /\ node.k = "ExprMethodCall" ->
                            PathsOf(Axum_parse_single_method(<<>>, node, prefix))
                      [] framework = "actix" /\ node.k = "ItemFn" ->
                            PathsOf(Actix_find_route_macros(<<>>, node, prefix))
                      [] OTHER -> <<>>
             below ==
                 CASE framework = "axum" /\ node.k = "ExprMethodCall" /\ node.method = "nest"
                      /\ IsSome(lit) /\ Len(node.args) > 1 ->
                            NestedPaths(<<node.receiver, node.args[1]>>, prefix)
                            \o NestedPaths(<<node.args[2]>>, Join(prefix, lit[1]))
                            \o NestedPaths(SubSeq(node.args, 3, Len(node.args)), prefix)
                   [] framework = "actix" /\ node.k = "ExprMethodCall" /\ node.method = "scope"
                      /\ IsSome(lit) ->
                            NestedPaths(Children(node), Join(prefix, lit[1]))
                   [] OTHER -> NestedPaths(Children(node), prefix)
         IN  own \o below \o NestedPaths(Tail(nodes), prefix)

\* C2: a route declared inside nested prefix constructs (.nest(prefix, router)
\* or .scope(path)) is extracted with the left-to-right combination of every
\* enclosing prefix and its own path, one "/" between non-empty parts.
C2_NestedRoutePaths ==
    pc = "done" => PathsOf(routes) = NestedPaths(AllItems, <<>>)

\* the scope paths of the .scope(..) calls being visited, outermost first
RECURSIVE EnclosingScopes(_)
EnclosingScopes(w) ==
    IF w = <<>> THEN <<>>
    ELSE IF Head(w).op = "restore"
    THEN Append(EnclosingScopes(Tail(w)), Head(w).node.args[1].value)
    ELSE EnclosingScopes(Tail(w))

RECURSIVE JoinAll(_, _)
JoinAll(prefix, paths) ==
    IF paths = <<>> THEN prefix ELSE JoinAll(Join(prefix, Head(paths)), Tail(paths))

\* C3: scope prefixes are handled LIFO.  At every point of the traversal the
\* visitor's prefix is the combination of the prefixes of the .scope(..) calls
\* whose visit has not returned yet, so that a visit returns with the prefix
\* it was entered with; the prefix is empty at the start and at the end of
\* every tree's traversal, and the chained-builder visitor's prefix, which no
\* visit changes, is empty throughout.
C3_PrefixLifo ==
    /\ current_scope = JoinAll(<<>>, EnclosingScopes(work))
    /\ current_prefix = <<>>
    /\ work = <<>> => current_scope = <<>>

\* C3 witness: the visit of the inner .scope("/v1/") call of FileScope has
\* returned into the outer .scope("/api") call, two routes later
C3_Witness ==
    /\ framework = "actix"
    /\ Len(EnclosingScopes(work)) = 1
    /\ current_scope = PathApi
    /\ \E i \in 1..Len(routes) : routes[i].path = PathApi \o <<"/", "v", "1", "/">> \o PathProfile

\* C4: both extractors fulfil the same pass-2 contract: a route whose handler
\* has a signature in the function table gets its extractor-derived parameters,
\* its request body and its response type from that signature, the response
\* type being derived from the declared return type.
C4_Pass2FillsAllThree ==
    pc = "done" =>
        \A i \in 1..Len(routes) :
            HandlerFound(routes[i]) =>
                LET fn_sig == functions[routes[i].handler_name]
                    n == Len(routes[i].parameters) - Len(Axum_parse_extractors(fn_sig)[1])
                IN  /\ n >= 0
                    /\ SubSeq(routes[i].parameters, n + 1, Len(routes[i].parameters))
                           = Axum_parse_extractors(fn_sig)[1]
                    /\ routes[i].request_body = Axum_parse_extractors(fn_sig)[2]
                    /\ routes[i].response_type = Axum_parse_response_type(fn_sig)

PathParameters(path) ==
    IF framework = "axum" THEN Axum_extract_path_parameters(path)
    ELSE Actix_extract_path_parameters(path)

\* the route as pass 1 created it, enriched from the given signature
EnrichedFrom(route, fn_sig) ==
    /\ route.parameters = PathParameters(route.path) \o Axum_parse_extractors(fn_sig)[1]
    /\ route.request_body = Axum_parse_extractors(fn_sig)[2]
    /\ framework = "axum" => route.response_type = Axum_parse_response_type(fn_sig)

\* C5: handler binding does not depend on declaration order.  After pass 2,
\* every route whose handler name is declared as a function anywhere in the
\* batch, before or after the route, in the same tree or in another, is
\* enriched from the signature of a declaration of that name.
C5_BindingIgnoresOrder ==
    pc = "done" =>
        \A i \in 1..Len(routes) :
            DeclaredSigs(routes[i].handler_name) # {} =>
                \E fn_sig \in DeclaredSigs(routes[i].handler_name) :
                    EnrichedFrom(routes[i], fn_sig)

\* C5 witness: the routes of the first tree name handlers that the second
\* tree declares, and the route of get_user carries its extractor parameters
C5_Witness ==
    /\ pc = "done"
    /\ framework = "axum"
    /\ parsed_files = <<FileRouter, FileHandlers>>
    /\ routes[3].handler_name = "get_user"
    /\ Len(routes[3].parameters) = 3
    /\ routes[3].response_type = Some(TypeInfo_new("User"))


\* the typed arguments of a signature that are a wrapper<T> of the given name
Wrapped(fn_sig, wrapper) ==
    SelectSeq(fn_sig.inputs,
              LAMBDA a : a.k = "Typed" /\ a.ty.k = "Path" /\ a.ty.name = wrapper
                         /\ Len(a.ty.args) > 0)

ExtractorArgs(fn_sig) ==
    SelectSeq(fn_sig.inputs,
              LAMBDA a : a.k = "Typed" /\ a.ty.k = "Path" /\ a.ty.name \in {"Path", "Query"}
                         /\ Len(a.ty.args) > 0)

\* C6: after pass 2 the parameters of a route whose handler is found are the
\* path-derived parameters of pass 1, unchanged and in path order, followed by
\* one parameter per path- or query-extractor argument, in argument order;
\* nothing is removed, replaced or deduplicated.
C6_PathThenExtractorParameters ==
    pc = "done" =>
        \A i \in 1..Len(routes) :
            HandlerFound(routes[i]) =>
                LET args == ExtractorArgs(functions[routes[i].handler_name])
                    derived == PathParameters(routes[i].path)
                    n == Len(derived)
                    ps == routes[i].parameters
                IN  /\ Len(ps) = n + Len(args)
                    /\ SubSeq(ps, 1, n) = derived
                    /\ \A j \in 1..Len(args) :
                          /\ ps[n + j].location = args[j].ty.name
                          /\ ps[n + j].type_info = Axum_extract_type_info(args[j].ty.args[1])

\* C6 witness: /users/:id with a Path<u32> and a Query<Pagination> argument has
\* the three parameters id, u32 and Pagination
C6_Witness ==
    /\ pc = "done"
    /\ framework = "axum"
    /\ \E i \in 1..Len(routes) :
          /\ routes[i].path = PathUsersId
          /\ Len(routes[i].parameters) = 3
          /\ routes[i].parameters[1] =
                 Parameter_new(<<"i", "d">>, "Path", TypeInfo_new("String"), TRUE)
          /\ routes[i].parameters[2].type_info = TypeInfo_new("u32")
          /\ routes[i].parameters[2].location = "Path"
          /\ routes[i].parameters[3].type_info = TypeInfo_new("Pagination")
          /\ routes[i].parameters[3].location = "Query"

Classified(ps) == [j \in 1..Len(ps) |-> <<ps[j].location, ps[j].type_info, ps[j].required>>]

\* C7: pass 2 classifies each typed handler argument by its wrapper's name.
\* The request body is the T of a Json<T> argument and is absent without one;
\* the parameters added to the path-derived ones are, in argument order, one
\* (Path, T, required) per Path<T> argument and one (Query, T, not required)
\* per Query<T> argument; every other argument contributes nothing.
C7_ExtractorClassification ==
    pc = "done" =>
        \A i \in 1..Len(routes) :
            HandlerFound(routes[i]) =>
                LET fn_sig == functions[routes[i].handler_name]
                    ps == routes[i].parameters
                    n == Len(PathParameters(routes[i].path))
                    added == Classified(SubSeq(ps, n + 1, Len(ps)))
                    of(wrapper, required) ==
                        LET args == Wrapped(fn_sig, wrapper)
                        IN  [j \in 1..Len(args) |->
                                <<wrapper, Axum_extract_type_info(args[j].ty.args[1]), required>>]
                    bodies == {Axum_extract_type_info(Wrapped(fn_sig, "Json")[j].ty.args[1]) :
                                  j \in 1..Len(Wrapped(fn_sig, "Json"))}
                IN  /\ SelectSeq(added, LAMBDA p : p[1] = "Path") = of("Path", TRUE)
                    /\ SelectSeq(added, LAMBDA p : p[1] = "Query") = of("Query", FALSE)
                    /\ \A j \in 1..Len(added) : added[j][1] \in {"Path", "Query"}
                    /\ IF bodies = {} THEN routes[i].request_body = None
                       ELSE \E b \in bodies : routes[i].request_body = Some(b)

\* C7 witness: a handler (Json<CreateUser>, Query<Option<Vec<Filter>>>) gives a
\* body CreateUser and one query parameter that is not required; and a handler
\* without arguments gives neither
C7_Witness ==
    /\ pc = "done"
    /\ \E i \in 1..Len(routes) :
          /\ HandlerFound(routes[i])
          /\ routes[i].request_body = Some(TypeInfo_new("CreateUser"))
          /\ Len(routes[i].parameters) = 2
          /\ routes[i].parameters[2].location = "Query"
          /\ ~routes[i].parameters[2].required
          /\ routes[i].parameters[2].type_info.is_option

\* a declared return type below its Result<T, _> wrappers
RECURSIVE OkType(_)
OkType(ty) ==
    IF ty.k = "Path" /\ ty.name = "Result" /\ Len(ty.args) > 0 THEN OkType(ty.args[1]) ELSE ty

JsonInner(ty) ==
    {Axum_extract_type_info(ty.args[j].args[1]) :
        j \in {h \in 1..Len(ty.args) : ty.args[h].k = "Path" /\ ty.args[h].name = "Json"
                                         /\ Len(ty.args[h].args) > 0}}

C9_Step ==
    /\ Len(routes') >= Len(routes)
    /\ \A i \in 1..Len(routes) :
          /\ routes'[i].path = routes[i].path
          /\ routes'[i].method = routes[i].method
          /\ routes'[i].handler_name = routes[i].handler_name
    /\ (pc = "visit" /\ pc' = "done") =>
          /\ Len(routes') = Len(routes)
          /\ \A i \in 1..Len(routes) :
                IF HandlerFound(routes[i])
                THEN routes'[i].request_body =
                         Axum_parse_extractors(functions[routes[i].handler_name])[2]
                ELSE /\ routes'[i] = routes[i]
                     /\ routes'[i].parameters = PathParameters(routes[i].path)
                     /\ routes'[i].request_body = None
                     /\ routes'[i].response_type = None

\* C9: pass 2 never adds, removes or reorders routes and never changes a
\* route's path, method or handler name.  A route whose handler has no entry
\* in the function table stays exactly as pass 1 created it (path-derived
\* parameters, no request body, no response type) and is still emitted, and
\* the routes whose handler is found are enriched all the same.
C9_Pass2Frame == [][C9_Step]_vars

\* C9 witness: after pass 2 a route with an unknown handler precedes a route
\* that was enriched
C9_Witness ==
    /\ pc = "done"
    /\ \E i, j \in 1..Len(routes) :
          /\ i < j
          /\ ~HandlerFound(routes[i])
          /\ routes[i].request_body = None
          /\ HandlerFound(routes[j])
          /\ Len(routes[j].parameters) > Len(PathParameters(routes[j].path))

----------------------------------------------------------------------------
(***************************************************************************)
(* type_resolver.rs: TypeResolver.                                         *)
(***************************************************************************)

\* syn::Field, syn::ItemStruct (named: Fields::Named) and syn::ItemEnum
Field(ident, ty, attrs) == [ident |-> ident, ty |-> ty, attrs |-> attrs]
ItemStruct(ident, named, fields) ==
    [k |-> "ItemStruct", ident |-> ident, named |-> named, fields |-> fields]
ItemEnum(ident, variants) == [k |-> "ItemEnum", ident |-> ident, variants |-> variants]

ResolvedType(name, kind, def) == [name |-> name, kind |-> kind, def |-> def]

\* str::find: the first position at which pattern occurs in s, 0 if none
find(s, pattern) ==
    LET at == {i \in 1..(Len(s) - Len(pattern) + 1) :
                  SubSeq(s, i, i + Len(pattern) - 1) = pattern}
    IN  IF at = {} THEN 0 ELSE CHOOSE i \in at : \A j \in at : i <= j

contains(s, pattern) == find(s, pattern) > 0

\* s[i..]
From(s, i) == SubSeq(s, i, Len(s))

TypeResolver_parse_primitive_type(type_name) ==
    CASE type_name \in {"String", "str"} -> Some("String")
      [] type_name = "i8" -> Some("I8")
      [] type_name = "i16" -> Some("I16")
      [] type_name = "i32" -> Some("I32")
      [] type_name = "i64" -> Some("I64")
      [] type_name = "i128" -> Some("I128")
      [] type_name = "u8" -> Some("U8")
      [] type_name = "u16" -> Some("U16")
      [] type_name = "u32" -> Some("U32")
      [] type_name = "u64" -> Some("U64")
      [] type_name = "u128" -> Some("U128")
      [] type_name = "f32" -> Some("F32")
      [] type_name = "f64" -> Some("F64")
      [] type_name = "bool" -> Some("Bool")
      [] type_name = "char" -> Some("Char")
      [] OTHER -> None

RECURSIVE TypeResolver_extract_type_info(_)
\* extract_type_info_from_path: Option<T>, Vec<T>, other generic types, simple types
TypeResolver_extract_type_info_from_path(ty) ==
    IF ty.name = "Option" /\ Len(ty.args) > 0
    THEN TypeInfo_option(TypeResolver_extract_type_info(ty.args[1]))
    ELSE IF ty.name = "Vec" /\ Len(ty.args) > 0
    THEN TypeInfo_vec(TypeResolver_extract_type_info(ty.args[1]))
    ELSE IF Len(ty.args) > 0
    THEN [name |-> ty.name, is_generic |-> TRUE,
          generic_args |-> [i \in 1..Len(ty.args) |->
                               TypeResolver_extract_type_info(ty.args[i])],
          is_option |-> FALSE, is_vec |-> FALSE]
    ELSE TypeInfo_new(ty.name)

TypeResolver_extract_type_info(ty) ==
    IF ty.k = "Path" THEN TypeResolver_extract_type_info_from_path(ty)
    ELSE TypeInfo_new("Unknown")

\* s from the first occurrence of pattern on, without its first skip characters
After(s, pattern, skip) ==
    IF s = None \/ ~contains(s[1], pattern) THEN None
    ELSE Some(From(s[1], find(s[1], pattern) + skip))

\* s up to its first occurrence of pattern
Until(s, pattern) ==
    IF s = None \/ ~contains(s[1], pattern) THEN None
    ELSE Some(SubSeq(s[1], 1, find(s[1], pattern) - 1))

\* the text between the first pair of quotes after the first = after "rename"
TypeResolver_extract_rename_value(tokens_str) ==
    Until(After(After(After(Some(tokens_str), <<"r", "e", "n", "a", "m", "e">>, 0),
                      <<"=">>, 1),
                <<"\"">>, 1),
          <<"\"">>)

\* the three attributes parse_serde_attributes looks for in one token string
WithRename(serde_attrs, tokens_str) ==
    IF IsSome(TypeResolver_extract_rename_value(tokens_str))
    THEN [serde_attrs EXCEPT !.rename = TypeResolver_extract_rename_value(tokens_str)]
    ELSE serde_attrs

WithSkip(serde_attrs, tokens_str) ==
    IF /\ contains(tokens_str, <<"s", "k", "i", "p">>)
       /\ ~contains(tokens_str,
                    <<"s", "k", "i", "p", "_", "s", "e", "r", "i", "a", "l", "i", "z", "i", "n",
                      "g", "_", "i", "f">>)
    THEN [serde_attrs EXCEPT !.skip = TRUE]
    ELSE serde_attrs

WithFlatten(serde_attrs, tokens_str) ==
    IF contains(tokens_str, <<"f", "l", "a", "t", "t", "e", "n">>)
    THEN [serde_attrs EXCEPT !.flatten = TRUE]
    ELSE serde_attrs

RECURSIVE TypeResolver_parse_serde_attributes_from(_, _)
TypeResolver_parse_serde_attributes_from(attrs, serde_attrs) ==
    IF attrs = <<>> THEN serde_attrs
    ELSE IF Head(attrs).name # "serde" \/ Head(attrs).meta # "List"
    THEN TypeResolver_parse_serde_attributes_from(Tail(attrs), serde_attrs)
    ELSE TypeResolver_parse_serde_attributes_from(
             Tail(attrs),
             WithFlatten(WithSkip(WithRename(serde_attrs, Head(attrs).tokens),
                                  Head(attrs).tokens),
                         Head(attrs).tokens))

TypeResolver_parse_serde_attributes(attrs) ==
    TypeResolver_parse_serde_attributes_from(
        attrs, [rename |-> None, skip |-> FALSE, flatten |-> FALSE])

\* parse_field: none for a field without a name
TypeResolver_parse_field(field) ==
    IF field.ident = None THEN None
    ELSE LET type_info == TypeResolver_extract_type_info(field.ty)
         IN  Some([name |-> field.ident[1],
                   type_info |-> type_info,
                   optional |-> type_info.is_option,
                   serde_attrs |-> TypeResolver_parse_serde_attributes(field.attrs)])

TypeResolver_parse_struct_fields(item_struct) ==
    IF item_struct.named
    THEN Flatten([i \in 1..Len(item_struct.fields) |->
                     TypeResolver_parse_field(item_struct.fields[i])])
    ELSE <<>>

TypeResolver_parse_struct_definition(item_struct) ==
    ResolvedType(item_struct.ident, "Struct", TypeResolver_parse_struct_fields(item_struct))

TypeResolver_parse_enum_definition(item_enum) ==
    ResolvedType(item_enum.ident, "Enum", item_enum.variants)

\* mutant: the last item of the given kind and name is returned
FindDefinition_Last(files, kind, name) ==
    LET items == Flatten(files)
        at == {i \in 1..Len(items) : items[i].k = kind /\ items[i].ident = name}
    IN  IF at = {} THEN None ELSE Some(items[CHOOSE i \in at : \A j \in at : j <= i])

\* the first item of the given kind and name, in file order then item order
FindDefinition(files, kind, name) ==
    LET items == Flatten(files)
        at == {i \in 1..Len(items) : items[i].k = kind /\ items[i].ident = name}
    IN  IF at = {} THEN None ELSE Some(items[CHOOSE i \in at : \A j \in at : i <= j])

TypeResolver_find_struct_definition(files, name) == FindDefinition(files, "ItemStruct", name)

TypeResolver_find_enum_definition(files, name) == FindDefinition(files, "ItemEnum", name)

\* mutant: a name that resolves to nothing stays in the guard set
TypeResolver_resolve_type_GuardKept(files, cache, guard, type_name) ==
    LET primitive == TypeResolver_parse_primitive_type(type_name)
        struct_def == TypeResolver_find_struct_definition(files, type_name)
        enum_def == TypeResolver_find_enum_definition(files, type_name)
    IN  IF type_name \in DOMAIN cache
        THEN [result |-> Some(cache[type_name]), cache |-> cache, guard |-> guard]
        ELSE IF type_name \in guard
        THEN [result |-> Some(ResolvedType(type_name, "Generic", <<"CircularRef", type_name>>)),
              cache |-> cache, guard |-> guard]
        ELSE IF IsSome(primitive)
        THEN [result |-> Some(ResolvedType(type_name, "Primitive", primitive[1])),
              cache |-> Insert(cache, type_name,
                               ResolvedType(type_name, "Primitive", primitive[1])),
              guard |-> guard]
        ELSE IF IsSome(struct_def)
        THEN [result |-> Some(TypeResolver_parse_struct_definition(struct_def[1])),
              cache |-> Insert(cache, type_name,
                               TypeResolver_parse_struct_definition(struct_def[1])),
              guard |-> guard]
        ELSE IF IsSome(enum_def)
        THEN [result |-> Some(TypeResolver_parse_enum_definition(enum_def[1])),
              cache |-> Insert(cache, type_name,
                               TypeResolver_parse_enum_definition(enum_def[1])),
              guard |-> guard]
        ELSE [result |-> None, cache |-> cache, guard |-> guard \cup {type_name}]

\* resolve_type: its result and the cache and guard set it leaves
\* a resolver that answers an undeclared name with a cached placeholder
TypeResolver_resolve_type_Placeholder(files, cache, guard, type_name) ==
    LET primitive == TypeResolver_parse_primitive_type(type_name)
        struct_def == TypeResolver_find_struct_definition(files, type_name)
        enum_def == TypeResolver_find_enum_definition(files, type_name)
        resolved == IF IsSome(primitive) THEN Some(ResolvedType(type_name, "Primitive", primitive[1]))
                    ELSE IF IsSome(struct_def)
                    THEN Some(TypeResolver_parse_struct_definition(struct_def[1]))
                    ELSE IF IsSome(enum_def)
                    THEN Some(TypeResolver_parse_enum_definition(enum_def[1]))
                    ELSE Some(ResolvedType(type_name, "Generic", <<"Unresolved", type_name>>))
    IN  IF type_name \in DOMAIN cache
        THEN [result |-> Some(cache[type_name]), cache |-> cache, guard |-> guard]
        ELSE [result |-> resolved, cache |-> Insert(cache, type_name, resolved[1]),
              guard |-> guard]

TypeResolver_resolve_type(files, cache, guard, type_name) ==
    LET primitive == TypeResolver_parse_primitive_type(type_name)
        struct_def == TypeResolver_find_struct_definition(files, type_name)
        enum_def == TypeResolver_find_enum_definition(files, type_name)
        resolved == IF IsSome(primitive) THEN Some(ResolvedType(type_name, "Primitive", primitive[1]))
                    ELSE IF IsSome(struct_def)
                    THEN Some(TypeResolver_parse_struct_definition(struct_def[1]))
                    ELSE IF IsSome(enum_def)
                    THEN Some(TypeResolver_parse_enum_definition(enum_def[1]))
                    ELSE None
    IN  IF type_name \in DOMAIN cache
        THEN [result |-> Some(cache[type_name]), cache |-> cache, guard |-> guard]
        ELSE IF type_name \in guard
        THEN [result |-> Some(ResolvedType(type_name, "Generic", <<"CircularRef", type_name>>)),
              cache |-> cache, guard |-> guard]
        ELSE [result |-> resolved,
              cache |-> IF IsSome(resolved) THEN Insert(cache, type_name, resolved[1]) ELSE cache,
              guard |-> (guard \cup {type_name}) \ {type_name}]

----------------------------------------------------------------------------
(***************************************************************************)
(* schema_generator.rs: SchemaGenerator.  Its functions call each other    *)
(* recursively; a call is a frame on stack, and every frame records where  *)
(* its function continues when the call it made returns.                   *)
(***************************************************************************)

Schema(schema_type, properties, required, items, enum_values, reference, format) ==
    [schema_type |-> schema_type, properties |-> properties, required |-> required,
     items |-> items, enum_values |-> enum_values, reference |-> reference,
     format |-> format]

Property(property_type, reference, items, format) ==
    [property_type |-> property_type, reference |-> reference, items |-> items,
     format |-> format]

\* format!("#/components/schemas/{}", name)
Reference(name) == <<"#/components/schemas/", name>>

ObjectSchema == Schema(Some("object"), None, None, None, None, None, None)
ReferenceSchema(name) == Schema(None, None, None, None, None, Some(Reference(name)), None)
ArraySchema(items_schema) ==
    Schema(Some("array"), None, None, Some(items_schema), None, None, None)

SchemaGenerator_primitive_to_schema(primitive) ==
    LET schema_type == CASE primitive \in {"String", "Char"} -> "string"
                         [] primitive \in {"I8", "I16", "I32", "I64", "I128",
                                           "U8", "U16", "U32", "U64", "U128"} -> "integer"
                         [] primitive \in {"F32", "F64"} -> "number"
                         [] primitive = "Bool" -> "boolean"
        format == CASE primitive \in {"I8", "I16", "I32", "U8", "U16", "U32"} -> Some("int32")
                    [] primitive \in {"I64", "I128", "U64", "U128"} -> Some("int64")
                    [] primitive = "F32" -> Some("float")
                    [] primitive = "F64" -> Some("double")
                    [] OTHER -> None
    IN  Schema(Some(schema_type), None, None, None, None, None, format)

Frame(fn, arg, at) ==
    [fn |-> fn, arg |-> arg, at |-> at, fields |-> <<>>, properties |-> <<>>,
     required |-> <<>>]

\* the function whose frame is on top of the stack is at the given point
At(fn, points) ==
    /\ status = "running"
    /\ stack # <<>>
    /\ Head(stack).fn = fn
    /\ Head(stack).at \in points

\* a call: the caller waits, at its return point, below the callee's frame;
\* a call with the stack full exhausts it and the process aborts
Call(caller, callee) ==
    IF Len(stack) < MaxStack
    THEN /\ stack' = <<callee, caller>> \o Tail(stack)
         /\ status' = status
         /\ log' = log
    ELSE /\ stack' = stack
         /\ status' = "overflow"
         /\ log' = log

Return(value) ==
    /\ stack' = Tail(stack)
    /\ ret' = [from |-> Head(stack).fn, arg |-> Head(stack).arg, value |-> value]
    /\ status' = IF Tail(stack) = <<>> THEN "idle" ELSE status
    /\ log' = IF Tail(stack) = <<>>
              THEN Append(log, [fn |-> Head(stack).fn, arg |-> Head(stack).arg,
                                value |-> value, schemas |-> schemas])
              ELSE log

Resolve(type_name) == TypeResolver_resolve_type(type_files, type_cache, resolving_stack, type_name)

Resolved(r) ==
    /\ type_cache' = r.cache
    /\ resolving_stack' = r.guard

\* generate_schema, from its entry to its first call or to its return
SchemaGenerator_generate_schema ==
    /\ At("generate_schema", {"entry"})
    /\ LET type_info == Head(stack).arg
           r == Resolve(type_info.name)
           wait(at) == [Head(stack) EXCEPT !.at = at]
       IN  IF type_info.is_option /\ type_info.generic_args # <<>>
           THEN /\ Call(wait("option"), Frame("generate_schema", type_info.generic_args[1], "entry"))
                /\ UNCHANGED <<type_cache, resolving_stack, ret>>
           ELSE IF type_info.is_vec /\ type_info.generic_args # <<>>
           THEN /\ Call(wait("vec"), Frame("generate_schema", type_info.generic_args[1], "entry"))
                /\ UNCHANGED <<type_cache, resolving_stack, ret>>
           ELSE /\ Resolved(r)
                /\ CASE r.result = None -> Return(ObjectSchema)
                     [] r.result # None /\ r.result[1].kind = "Primitive" ->
                            Return(SchemaGenerator_primitive_to_schema(r.result[1].def))
                     [] r.result # None /\ r.result[1].kind = "Struct" ->
                            /\ Call(wait("struct"),
                                    Frame("generate_struct_schema", type_info.name, "entry"))
                            /\ ret' = ret
                     [] r.result # None /\ r.result[1].kind = "Enum" ->
                            /\ Call(wait("enum"),
                                    Frame("generate_enum_schema", type_info.name, "entry"))
                            /\ ret' = ret
                     [] r.result # None /\ r.result[1].kind = "Generic" -> Return(ObjectSchema)
    /\ UNCHANGED <<type_files, schemas, calls>>
    /\ UNCHANGED <<extractVars, earlier, iterated, discovered, run, joined, builder>>

\* generate_schema, from the return of the call it made to its own return
SchemaGenerator_generate_schema_return ==
    /\ At("generate_schema", {"option", "vec", "struct", "enum"})
    /\ LET at == Head(stack).at
       IN  CASE at = "option" -> Return(ret.value)
             [] at = "vec" -> Return(ArraySchema(ret.value))
             [] at \in {"struct", "enum"} -> Return(ReferenceSchema(Head(stack).arg.name))
    /\ UNCHANGED <<type_files, type_cache, resolving_stack, schemas, calls>>
    /\ UNCHANGED <<extractVars, earlier, iterated, discovered, run, joined, builder>>

\* generate_struct_schema, from its entry to the loop over the fields
SchemaGenerator_generate_struct_schema ==
    /\ At("generate_struct_schema", {"entry"})
    /\ LET type_name == Head(stack).arg
           r == Resolve(type_name)
       IN  IF type_name \in DOMAIN schemas
           THEN /\ Return(<<>>)
                /\ UNCHANGED <<type_cache, resolving_stack>>
           ELSE /\ Resolved(r)
                /\ IF r.result # None /\ r.result[1].kind = "Struct"
                   THEN /\ stack' = <<[Head(stack) EXCEPT !.at = "fields",
                                                          !.fields = r.result[1].def]>>
                                    \o Tail(stack)
                        /\ UNCHANGED <<ret, status, log>>
                   ELSE Return(<<>>)
    /\ UNCHANGED <<type_files, schemas, calls>>
    /\ UNCHANGED <<extractVars, earlier, iterated, discovered, run, joined, builder>>

\* the name a field's property is inserted under
FieldName(field) ==
    IF IsSome(field.serde_attrs.rename) THEN field.serde_attrs.rename[1] ELSE field.name

\* generate_struct_schema, the loop: a skipped field, or the call for a field's property
SchemaGenerator_generate_struct_schema_field ==
    /\ At("generate_struct_schema", {"fields"})
    /\ Head(stack).fields # <<>>
    /\ LET field == Head(Head(stack).fields)
       IN  IF field.serde_attrs.skip
           THEN /\ stack' = <<[Head(stack) EXCEPT !.fields = Tail(@)]>> \o Tail(stack)
                /\ status' = status
                /\ log' = log
           ELSE Call([Head(stack) EXCEPT !.at = "property"],
                     Frame("type_info_to_property", field.type_info, "entry"))
    /\ UNCHANGED <<type_files, type_cache, resolving_stack, schemas, ret, calls>>
    /\ UNCHANGED <<extractVars, earlier, iterated, discovered, run, joined, builder>>

\* generate_struct_schema, the loop: the property returned for a field is inserted
SchemaGenerator_generate_struct_schema_property ==
    /\ At("generate_struct_schema", {"property"})
    /\ LET field == Head(Head(stack).fields)
           field_name == FieldName(field)
       IN  stack' = <<[Head(stack) EXCEPT
                          !.at = "fields",
                          !.fields = Tail(@),
                          !.properties = Insert(@, field_name, ret.value),
                          !.required = IF ~field.optional /\ ~field.type_info.is_option
                                       THEN Append(@, field_name) ELSE @]>>
                     \o Tail(stack)
    /\ UNCHANGED <<type_files, type_cache, resolving_stack, schemas, ret, status, calls, log>>
    /\ UNCHANGED <<extractVars, earlier, iterated, discovered, run, joined, builder>>

\* generate_struct_schema, after the loop: the object schema enters the catalog
\* the insertion history after schemas.insert(name, ..)
Inserted(name) == IF name \in DOMAIN schemas THEN discovered ELSE Append(discovered, name)

SchemaGenerator_generate_struct_schema_insert ==
    /\ At("generate_struct_schema", {"fields"})
    /\ Head(stack).fields = <<>>
    /\ LET required == Head(stack).required
           schema == Schema(Some("object"), Some(Head(stack).properties),
                            IF required = <<>> THEN None ELSE Some(required),
                            None, None, None, None)
       IN  schemas' = Insert(schemas, Head(stack).arg, schema)
    /\ discovered' = Inserted(Head(stack).arg)
    /\ Return(<<>>)
    /\ UNCHANGED <<type_files, type_cache, resolving_stack, calls>>
    /\ UNCHANGED <<extractVars, earlier, iterated, run, joined, builder>>

SchemaGenerator_generate_enum_schema ==
    /\ At("generate_enum_schema", {"entry"})
    /\ LET type_name == Head(stack).arg
           r == Resolve(type_name)
       IN  IF type_name \in DOMAIN schemas
           THEN UNCHANGED <<type_cache, resolving_stack, schemas>>
           ELSE /\ Resolved(r)
                /\ IF r.result # None /\ r.result[1].kind = "Enum"
                   THEN schemas' =
                            Insert(schemas, type_name,
                                   Schema(Some("string"), None, None, None,
                                          Some(r.result[1].def), None, None))
                   ELSE schemas' = schemas
    /\ discovered' = IF DOMAIN schemas' = DOMAIN schemas
                     THEN discovered ELSE Inserted(Head(stack).arg)
    /\ Return(<<>>)
    /\ UNCHANGED <<type_files, calls>>
    /\ UNCHANGED <<extractVars, earlier, iterated, run, joined, builder>>

\* mutant: a record- or enum-typed field gets its reference without the
\* record's or enum's schema being generated
SchemaGenerator_type_info_to_property_NoGenerate ==
    /\ At("type_info_to_property", {"entry"})
    /\ LET type_info == Head(stack).arg
           r == Resolve(type_info.name)
           wait(at) == [Head(stack) EXCEPT !.at = at]
       IN  IF type_info.is_option /\ type_info.generic_args # <<>>
           THEN /\ Call(wait("option"),
                        Frame("type_info_to_property", type_info.generic_args[1], "entry"))
                /\ UNCHANGED <<type_cache, resolving_stack, ret>>
           ELSE IF type_info.is_vec /\ type_info.generic_args # <<>>
           THEN /\ Call(wait("vec"), Frame("generate_schema", type_info.generic_args[1], "entry"))
                /\ UNCHANGED <<type_cache, resolving_stack, ret>>
           ELSE /\ Resolved(r)
                /\ CASE r.result = None -> Return(Property(Some("object"), None, None, None))
                     [] r.result # None /\ r.result[1].kind = "Primitive" ->
                            LET schema == SchemaGenerator_primitive_to_schema(r.result[1].def)
                            IN  Return(Property(schema.schema_type, None, None, schema.format))
                     [] r.result # None /\ r.result[1].kind \in {"Struct", "Enum"} ->
                            Return(Property(None, Some(Reference(type_info.name)), None, None))
                     [] r.result # None /\ r.result[1].kind = "Generic" ->
                            Return(Property(Some("object"), None, None, None))
    /\ UNCHANGED <<type_files, schemas, calls>>
    /\ UNCHANGED <<extractVars, earlier, iterated, discovered, run, joined, builder>>

\* type_info_to_property, from its entry to its first call or to its return
SchemaGenerator_type_info_to_property ==
    /\ At("type_info_to_property", {"entry"})
    /\ LET type_info == Head(stack).arg
           r == Resolve(type_info.name)
           wait(at) == [Head(stack) EXCEPT !.at = at]
       IN  IF type_info.is_option /\ type_info.generic_args # <<>>
           THEN /\ Call(wait("option"),
                        Frame("type_info_to_property", type_info.generic_args[1], "entry"))
                /\ UNCHANGED <<type_cache, resolving_stack, ret>>
           ELSE IF type_info.is_vec /\ type_info.generic_args # <<>>
           THEN /\ Call(wait("vec"), Frame("generate_schema", type_info.generic_args[1], "entry"))
                /\ UNCHANGED <<type_cache, resolving_stack, ret>>
           ELSE /\ Resolved(r)
                /\ CASE r.result = None -> Return(Property(Some("object"), None, None, None))
                     [] r.result # None /\ r.result[1].kind = "Primitive" ->
                            LET schema == SchemaGenerator_primitive_to_schema(r.result[1].def)
                            IN  Return(Property(schema.schema_type, None, None, schema.format))
                     [] r.result # None /\ r.result[1].kind = "Struct" ->
                            /\ Call(wait("struct"),
                                    Frame("generate_struct_schema", type_info.name, "entry"))
                            /\ ret' = ret
                     [] r.result # None /\ r.result[1].kind = "Enum" ->
                            /\ Call(wait("enum"),
                                    Frame("generate_enum_schema", type_info.name, "entry"))
                            /\ ret' = ret
                     [] r.result # None /\ r.result[1].kind = "Generic" ->
                            Return(Property(Some("object"), None, None, None))
    /\ UNCHANGED <<type_files, schemas, calls>>
    /\ UNCHANGED <<extractVars, earlier, iterated, discovered, run, joined, builder>>

\* type_info_to_property, from the return of the call it made to its own return
SchemaGenerator_type_info_to_property_return ==
    /\ At("type_info_to_property", {"option", "vec", "struct", "enum"})
    /\ LET at == Head(stack).at
       IN  CASE at = "option" -> Return(ret.value)
             [] at = "vec" -> Return(Property(Some("array"), None, Some(ret.value), None))
             [] at \in {"struct", "enum"} ->
                    Return(Property(None, Some(Reference(Head(stack).arg.name)), None, None))
    /\ UNCHANGED <<type_files, type_cache, resolving_stack, schemas, calls>>
    /\ UNCHANGED <<extractVars, earlier, iterated, discovered, run, joined, builder>>

----------------------------------------------------------------------------
(***************************************************************************)
(* Type declarations and requests; a session of the resolver and the       *)
(* generator.                                                              *)
(***************************************************************************)

Serde(tokens) == Attribute("serde", "List", tokens)

\* serde(rename = "userName")
TokensRename ==
    <<"r", "e", "n", "a", "m", "e", " ", "=", " ", "\"", "u", "s", "e", "r", "N", "a", "m", "e",
      "\"">>
\* serde(skip)
TokensSkip == <<"s", "k", "i", "p">>
\* serde(skip_serializing_if = "Option::is_none")
TokensSkipIf ==
    <<"s", "k", "i", "p", "_", "s", "e", "r", "i", "a", "l", "i", "z", "i", "n", "g", "_", "i",
      "f", " ", "=", " ", "\"", "O", "p", "t", "i", "o", "n", ":", ":", "i", "s", "_", "n", "o",
      "n", "e", "\"">>

\* struct Response { data: Option<Vec<User>>, status: Status }
\* struct User { id: u32, #[serde(rename = "userName")] name: String,
\*               #[serde(skip)] password: String,
\*               #[serde(skip_serializing_if = "Option::is_none")] team: Option<Team> }
\* struct Team { name: String }    enum Status { Active, Inactive }
FilesResponse ==
    << <<ItemStruct("Response", TRUE,
            <<Field(Some(<<"d", "a", "t", "a">>), G("Option", G("Vec", T("User"))), <<>>),
              Field(Some(<<"s", "t", "a", "t", "u", "s">>), T("Status"), <<>>)>>)>>,
       <<ItemStruct("User", TRUE,
            <<Field(Some(<<"i", "d">>), T("u32"), <<>>),
              Field(Some(<<"n", "a", "m", "e">>), T("String"), <<Serde(TokensRename)>>),
              Field(Some(<<"p", "a", "s", "s", "w", "o", "r", "d">>), T("String"),
                    <<Serde(TokensSkip)>>),
              Field(Some(<<"t", "e", "a", "m">>), G("Option", T("Team")),
                    <<Serde(TokensSkipIf)>>)>>),
         ItemEnum("Status", <<"Active", "Inactive">>),
         ItemStruct("Team", TRUE, <<Field(Some(<<"n", "a", "m", "e">>), T("String"), <<>>)>>)>> >>

\* struct Tree { value: i32, children: Vec<Tree> }
FilesTree ==
    << <<ItemStruct("Tree", TRUE,
            <<Field(Some(<<"v", "a", "l", "u", "e">>), T("i32"), <<>>),
              Field(Some(<<"c", "h", "i", "l", "d", "r", "e", "n">>), G("Vec", T("Tree")),
                    <<>>)>>)>> >>

\* struct A { b: Option<B> }  and, in another file,  struct B { a: A }
FilesCycle ==
    << <<ItemStruct("A", TRUE, <<Field(Some(<<"b">>), G("Option", T("B")), <<>>)>>)>>,
       <<ItemStruct("B", TRUE, <<Field(Some(<<"a">>), T("A"), <<>>)>>)>> >>

\* struct Node { id: Id, next: Option<Box<Node>>, tags: &[Tag] }   struct Id(u64);
FilesNode ==
    << <<ItemStruct("Node", TRUE,
            <<Field(Some(<<"i", "d">>), T("Id"), <<>>),
              Field(Some(<<"n", "e", "x", "t">>), G("Option", G("Box", T("Node"))), <<>>),
              Field(Some(<<"t", "a", "g", "s">>), TypeReference(TypeSlice(T("Tag"))), <<>>)>>),
         ItemStruct("Id", FALSE, <<Field(None, T("u64"), <<>>)>>)>> >>

\* serde(rename = "skipCount")
TokensRenameSkipCount ==
    <<"r", "e", "n", "a", "m", "e", " ", "=", " ", "\"", "s", "k", "i", "p", "C", "o", "u", "n",
      "t", "\"">>

\* struct Settings { #[serde(rename = "skipCount")] skip_count: u32, name: Option<String> }
FilesSettings ==
    << <<ItemStruct("Settings", TRUE,
            <<Field(Some(<<"s", "k", "i", "p", "_", "c", "o", "u", "n", "t">>), T("u32"),
                    <<Serde(TokensRenameSkipCount)>>),
              Field(Some(<<"n", "a", "m", "e">>), G("Option", T("String")), <<>>)>>)>> >>

\* enum User { Admin }  struct u32 { v: String }  struct Response { a: u32 }
\* struct User { id: u32 }  struct Response { b: String }  enum Status { On }
\* enum Status { Off }
FilesClash ==
    << <<ItemEnum("User", <<"Admin">>),
         ItemStruct("u32", TRUE, <<Field(Some(<<"v">>), T("String"), <<>>)>>),
         ItemStruct("Response", TRUE, <<Field(Some(<<"a">>), T("u32"), <<>>)>>)>>,
       <<ItemStruct("User", TRUE, <<Field(Some(<<"i", "d">>), T("u32"), <<>>)>>),
         ItemStruct("Response", TRUE, <<Field(Some(<<"b">>), T("String"), <<>>)>>),
         ItemEnum("Status", <<"On">>)>>,
       <<ItemEnum("Status", <<"Off">>)>> >>

TypeBatches == {FilesResponse, FilesTree, FilesCycle, FilesNode, FilesSettings, FilesClash}

TypeNames == {"Response", "User", "Status", "Tree", "A", "Node", "Settings", "u32", "Missing"}

\* the type descriptors schemas are requested for
RequestTypes ==
    {TypeInfo_new(name) : name \in TypeNames}
        \cup {TypeInfo_option(TypeInfo_vec(TypeInfo_new("Response")))}

\* a caller of the generator asks for the schema of a type
CallGenerateSchema ==
    /\ status = "idle"
    /\ calls < MaxCalls
    /\ \E type_info \in RequestTypes :
          stack' = <<Frame("generate_schema", type_info, "entry")>>
    /\ status' = "running"
    /\ calls' = calls + 1
    /\ UNCHANGED <<type_files, type_cache, resolving_stack, schemas, ret, log>>
    /\ UNCHANGED <<extractVars, earlier, iterated, discovered, run, joined, builder>>

\* a caller of the resolver asks for a type by name
CallResolveType ==
    /\ status = "idle"
    /\ calls < MaxCalls
    /\ \E type_name \in TypeNames :
          LET r == Resolve(type_name)
          IN  /\ Resolved(r)
              /\ ret' = [from |-> "resolve_type", arg |-> type_name, value |-> r.result]
              /\ log' = Append(log, [fn |-> "resolve_type", arg |-> type_name,
                                     value |-> r.result, schemas |-> schemas])
    /\ calls' = calls + 1
    /\ UNCHANGED <<type_files, schemas, stack, status>>
    /\ UNCHANGED <<extractVars, earlier, iterated, discovered, run, joined, builder>>

\* the orders in which iterating a hash map with the keys `names` can yield them
Orders(names) ==
    {order \in [1..Cardinality(names) -> names] :
        \A i, j \in 1..Cardinality(names) : order[i] = order[j] => i = j}

\* builder.build(schema_gen): schema_gen.get_schemas().clone() becomes the
\* document's components; the generator is consumed
OpenApiBuilder_build ==
    /\ status = "idle"
    /\ iterated' \in Orders(DOMAIN schemas)
    /\ status' = "built"
    /\ UNCHANGED <<type_files, type_cache, resolving_stack, schemas, stack, ret, calls, log>>
    /\ UNCHANGED <<extractVars, earlier, discovered, run, joined, builder>>

ExtractIdle ==
    /\ parsed_files = <<>>
    /\ framework = "axum"
    /\ pc = "done"
    /\ file_idx = 0
    /\ work = <<>>
    /\ routes = <<>>
    /\ current_prefix = <<>>
    /\ current_scope = <<>>
    /\ functions = <<>>

\* TypeResolver::new(parsed_files) and SchemaGenerator::new(type_resolver)
InitSchema ==
    /\ type_files \in TypeBatches
    /\ type_cache = <<>>
    /\ resolving_stack = {}
    /\ schemas = <<>>
    /\ stack = <<>>
    /\ ret = <<>>
    /\ status = "idle"
    /\ calls = 0
    /\ log = <<>>
    /\ ExtractIdle
    /\ earlier = <<>>
    /\ discovered = <<>>
    /\ iterated = <<>>
    /\ joined = NotJoined
    /\ builder = BuilderOff
    /\ run = RunOff

NextSchema ==
    \/ CallGenerateSchema
    \/ CallResolveType
    \/ SchemaGenerator_generate_schema
    \/ SchemaGenerator_generate_schema_return
    \/ SchemaGenerator_generate_struct_schema
    \/ SchemaGenerator_generate_struct_schema_field
    \/ SchemaGenerator_generate_struct_schema_property
    \/ SchemaGenerator_generate_struct_schema_insert
    \/ SchemaGenerator_generate_enum_schema
    \/ SchemaGenerator_type_info_to_property
    \/ SchemaGenerator_type_info_to_property_return
    \/ OpenApiBuilder_build

SpecSchema == InitSchema /\ [][NextSchema]_vars

----------------------------------------------------------------------------
\* A run of the pipeline: route extraction over parsed_files, then one
\* generate_schema request per type the routes carry, in route order; and a
\* second run over the same trees with fresh component instances.

\* struct User { id: u32, role: Role, tags: Vec<String> }  enum Role { Admin, Member }
\* struct CreateUser { name: String, role: Option<Role> }  struct Pagination { page: u32 }
FilesApi ==
    << <<ItemStruct("User", TRUE,
            <<Field(Some(<<"i", "d">>), T("u32"), <<>>),
              Field(Some(<<"r", "o", "l", "e">>), T("Role"), <<>>),
              Field(Some(<<"t", "a", "g", "s">>), G("Vec", T("String")), <<>>)>>),
         ItemEnum("Role", <<"Admin", "Member">>)>>,
       <<ItemStruct("CreateUser", TRUE,
            <<Field(Some(<<"n", "a", "m", "e">>), T("String"), <<>>),
              Field(Some(<<"r", "o", "l", "e">>), G("Option", T("Role")), <<>>)>>),
         ItemStruct("Pagination", TRUE,
            <<Field(Some(<<"p", "a", "g", "e">>), T("u32"), <<>>)>>)>> >>

RunTypeBatches == {FilesApi, FilesResponse}

\* the types add_route hands to the generator for one route: the parameters'
\* (generate_parameter_schema), the request body's, the response's
RouteTypes(route) ==
    [p \in 1..Len(route.parameters) |-> route.parameters[p].type_info]
        \o route.request_body \o route.response_type

\* the generate_schema requests of `for route in &all_routes { builder.add_route(..) }`
Requests == Flatten([r \in 1..Len(routes) |-> RouteTypes(routes[r])])

OpenApiBuilder_add_route ==
    /\ pc = "done"
    /\ status = "idle"
    /\ calls < Len(Requests)
    /\ stack' = <<Frame("generate_schema", Requests[calls + 1], "entry")>>
    /\ status' = "running"
    /\ calls' = calls + 1
    /\ UNCHANGED <<type_files, type_cache, resolving_stack, schemas, ret, log>>
    /\ UNCHANGED <<extractVars, earlier, iterated, discovered, run, joined, builder>>

Finished == pc = "done" /\ status = "idle" /\ calls = Len(Requests)

\* a second run that keeps the first run's visitor
NewRun_ReusedVisitor ==
    /\ Finished
    /\ earlier = <<>>
    /\ earlier' = <<[routes |-> routes, schemas |-> schemas, log |-> log]>>
    /\ pc' = "visit"
    /\ file_idx' = 0
    /\ work' = <<>>
    /\ type_cache' = <<>>
    /\ resolving_stack' = {}
    /\ schemas' = <<>>
    /\ stack' = <<>>
    /\ ret' = <<>>
    /\ calls' = 0
    /\ log' = <<>>
    /\ discovered' = <<>>
    /\ UNCHANGED <<parsed_files, framework, type_files, status, routes, current_prefix,
                   current_scope, functions, iterated, run, joined, builder>>

\* the run is over; the same trees are run again: Visitor::new(),
\* TypeResolver::new(parsed_files), SchemaGenerator::new(type_resolver)
NewRun ==
    /\ Finished
    /\ earlier = <<>>
    /\ earlier' = <<[routes |-> routes, schemas |-> schemas, log |-> log]>>
    /\ pc' = "visit"
    /\ file_idx' = 0
    /\ work' = <<>>
    /\ routes' = <<>>
    /\ current_prefix' = <<>>
    /\ current_scope' = <<>>
    /\ functions' = <<>>
    /\ type_cache' = <<>>
    /\ resolving_stack' = {}
    /\ schemas' = <<>>
    /\ stack' = <<>>
    /\ ret' = <<>>
    /\ calls' = 0
    /\ log' = <<>>
    /\ discovered' = <<>>
    /\ UNCHANGED <<parsed_files, framework, type_files, status, iterated, run, joined, builder>>

InitRuns ==
    /\ parsed_files \in Batches
    /\ framework \in {"axum", "actix"}
    /\ pc = "visit"
    /\ file_idx = 0
    /\ work = <<>>
    /\ routes = <<>>
    /\ current_prefix = <<>>
    /\ current_scope = <<>>
    /\ functions = <<>>
    /\ type_files \in RunTypeBatches
    /\ type_cache = <<>>
    /\ resolving_stack = {}
    /\ schemas = <<>>
    /\ stack = <<>>
    /\ ret = <<>>
    /\ status = "idle"
    /\ calls = 0
    /\ log = <<>>
    /\ earlier = <<>>
    /\ discovered = <<>>
    /\ iterated = <<>>
    /\ joined = NotJoined
    /\ builder = BuilderOff
    /\ run = RunOff

NextRuns ==
    \/ visit_file
    \/ visit_default
    \/ Axum_visit_expr_method_call
    \/ Axum_visit_item_fn
    \/ Actix_visit_item_fn
    \/ Actix_visit_expr_method_call
    \/ Actix_visit_expr_method_call_return
    \/ Axum_extract_routes_pass2
    \/ Actix_extract_routes_pass2
    \/ OpenApiBuilder_add_route
    \/ SchemaGenerator_generate_schema
    \/ SchemaGenerator_generate_schema_return
    \/ SchemaGenerator_generate_struct_schema
    \/ SchemaGenerator_generate_struct_schema_field
    \/ SchemaGenerator_generate_struct_schema_property
    \/ SchemaGenerator_generate_struct_schema_insert
    \/ SchemaGenerator_generate_enum_schema
    \/ SchemaGenerator_type_info_to_property
    \/ SchemaGenerator_type_info_to_property_return
    \/ NewRun

SpecRuns == InitRuns /\ [][NextRuns]_vars

----------------------------------------------------------------------------
(* detector.rs: FrameworkDetector; cli.rs: run.                            *)

UsePath(ident, tree) == [k |-> "Path", ident |-> ident, tree |-> tree]
UseGroup(items) == [k |-> "Group", items |-> items]
UseRename(ident, rename) == [k |-> "Rename", ident |-> ident, rename |-> rename]
UseName(ident) == [k |-> "Name", ident |-> ident]
UseGlob == [k |-> "Glob"]
ItemUse(tree) == [k |-> "ItemUse", tree |-> tree]

\* if ident == "axum" { insert(Axum) }  if ident == "actix_web" { insert(ActixWeb) }
FrameworkDetector_insert(ident, detected) ==
    detected \cup (IF ident = "axum" THEN {"axum"} ELSE {})
             \cup (IF ident = "actix_web" THEN {"actix"} ELSE {})

RECURSIVE FrameworkDetector_check_use_tree(_, _)
FrameworkDetector_check_use_tree(tree, detected) ==
    CASE tree.k = "Path" ->
            FrameworkDetector_check_use_tree(tree.tree,
                                             FrameworkDetector_insert(tree.ident, detected))
      [] tree.k = "Group" ->
            IF tree.items = <<>> THEN detected
            ELSE FrameworkDetector_check_use_tree(
                     UseGroup(Tail(tree.items)),
                     FrameworkDetector_check_use_tree(Head(tree.items), detected))
      [] tree.k \in {"Rename", "Name"} -> FrameworkDetector_insert(tree.ident, detected)
      [] tree.k = "Glob" -> detected

\* the loops of detect over the files' items
RECURSIVE FrameworkDetector_detect_items(_, _)
FrameworkDetector_detect_items(items, detected) ==
    IF items = <<>> THEN detected
    ELSE FrameworkDetector_detect_items(
             Tail(items),
             IF Head(items).k = "ItemUse"
             THEN FrameworkDetector_check_use_tree(Head(items).tree, detected)
             ELSE detected)

\* mutant: the loops end at the first framework found
FrameworkDetector_detect_FirstFound(files) ==
    LET first == {f \in 1..Len(files) : FrameworkDetector_detect_items(files[f].items, {}) # {}}
    IN  IF first = {} THEN {}
        ELSE {CHOOSE framework_ \in FrameworkDetector_detect_items(
                         files[CHOOSE f \in first : \A g \in first : f <= g].items, {}) : TRUE}

\* the set detect collects; its result vector holds it in the order the
\* hash set's iteration gives
FrameworkDetector_detect(files) ==
    FrameworkDetector_detect_items(Flatten([f \in 1..Len(files) |-> files[f].items]), {})

\* use axum::{Router, routing::get};  fn app() -> Router { Router::new().route("/users", get(list_users)) }
FileAxumApp ==
    [items |->
        << ItemUse(UsePath("axum", UseGroup(<<UseName("Router"),
                                              UsePath("routing", UseName("get"))>>))),
           ItemFn(<<>>, Signature("app", <<>>, Some(T("Router"))),
                  <<Route(RouterNew, PathUsers, "get", "list_users")>>) >>]

\* use actix_web::{web, App};  #[get("/users")] async fn list_users() -> HttpResponse
\* fn config(app: App) { app.scope("/api").service(list_users) }
FileActixApp ==
    [items |->
        << ItemUse(UsePath("actix_web", UseGroup(<<UseName("web"), UseName("App")>>))),
           ItemFn(<<Attribute("get", "List", Quoted(PathUsers))>>,
                  Signature("list_users", <<>>, Some(T("HttpResponse"))), <<>>),
           ItemFn(<<>>, Signature("config", <<FnArgTyped(T("App"))>>, None),
                  <<ExprMethodCall(ExprMethodCall(ExprPath("app"), "scope",
                                                  <<ExprLitStr(PathApi)>>),
                                   "service", <<ExprPath("list_users")>>)>>) >>]

\* use actix_web as actix;  use actix::web;
FileRenamed ==
    [items |-> << ItemUse(UseRename("actix_web", "actix")),
                  ItemUse(UsePath("actix", UseName("web"))) >>]

\* use axum::*;
FileGlob == [items |-> << ItemUse(UsePath("axum", UseGlob)) >>]

\* use std::collections::HashMap;  use serde::{Serialize, Deserialize};
FileStd ==
    [items |->
        << ItemUse(UsePath("std", UsePath("collections", UseName("HashMap")))),
           ItemUse(UsePath("serde", UseGroup(<<UseName("Serialize"), UseName("Deserialize")>>))) >>]

\* use crate::adapters::axum::Handler;
FileAdapters ==
    [items |->
        << ItemUse(UsePath("crate", UsePath("adapters", UsePath("axum", UseName("Handler"))))) >>]

\* an empty file
FileEmpty == [items |-> <<>>]

\* use axum::Router;  use axum::routing::get;
FileAxumTwice ==
    [items |-> << ItemUse(UsePath("axum", UseName("Router"))),
                  ItemUse(UsePath("axum", UsePath("routing", UseName("get")))) >>]

DriverFiles ==
    {FileAxumApp, FileActixApp, FileRenamed, FileGlob, FileStd, FileAdapters, FileEmpty,
     FileAxumTwice}

\* the document of the routes: one operation per route
OpenApiDocument(all_routes) ==
    [openapi |-> "3.0.0",
     operations |-> [r \in 1..Len(all_routes) |->
                        [path |-> all_routes[r].path, method |-> all_routes[r].method,
                         operation_id |-> all_routes[r].handler_name]]]

\* Step 2: no file could be parsed
run_parse ==
    /\ run.pc = "parse"
    /\ run' = [run EXCEPT !.pc = IF parsed_files = <<>> THEN "error" ELSE "frameworks"]
    /\ UNCHANGED <<extractVars, schemaVars, earlier, iterated, discovered, joined, builder>>

\* a driver that consults the detector also when a framework is given
run_frameworks_AlwaysDetect ==
    /\ run.pc = "frameworks"
    /\ IF FrameworkDetector_detect(parsed_files) = {}
       THEN run' = [run EXCEPT !.pc = "error"]
       ELSE \E frameworks \in Orders(FrameworkDetector_detect(parsed_files)) :
               run' = [run EXCEPT !.pc = "extract", !.frameworks = frameworks]
    /\ UNCHANGED <<extractVars, schemaVars, earlier, iterated, discovered, joined, builder>>

\* Step 3: the given framework, or else the detected ones
run_frameworks ==
    /\ run.pc = "frameworks"
    /\ IF IsSome(run.args_framework)
       THEN run' = [run EXCEPT !.pc = "extract", !.frameworks = <<run.args_framework[1]>>]
       ELSE IF FrameworkDetector_detect(parsed_files) = {}
       THEN run' = [run EXCEPT !.pc = "error"]
       ELSE \E frameworks \in Orders(FrameworkDetector_detect(parsed_files)) :
               run' = [run EXCEPT !.pc = "extract", !.frameworks = frameworks]
    /\ UNCHANGED <<extractVars, schemaVars, earlier, iterated, discovered, joined, builder>>

\* Step 4: extractor.extract_routes(&parsed_files) for the next framework
run_extract_routes ==
    /\ run.pc = "extract"
    /\ run.idx < Len(run.frameworks)
    /\ framework' = run.frameworks[run.idx + 1]
    /\ pc' = "visit"
    /\ file_idx' = 0
    /\ work' = <<>>
    /\ routes' = <<>>
    /\ current_prefix' = <<>>
    /\ current_scope' = <<>>
    /\ functions' = <<>>
    /\ run' = [run EXCEPT !.pc = "extracting"]
    /\ UNCHANGED <<parsed_files, schemaVars, earlier, iterated, discovered, joined, builder>>

\* all_routes.extend(routes)
run_extend ==
    /\ run.pc = "extracting"
    /\ pc = "done"
    /\ run' = [run EXCEPT !.pc = "extract", !.idx = run.idx + 1,
                          !.all_routes = run.all_routes \o routes]
    /\ UNCHANGED <<extractVars, schemaVars, earlier, iterated, discovered, joined, builder>>

\* the warning for no routes; Steps 5 to 8: the document is built,
\* serialized and written
run_output ==
    /\ run.pc = "extract"
    /\ run.idx = Len(run.frameworks)
    /\ run' = [run EXCEPT !.pc = "done", !.warned = (run.all_routes = <<>>),
                          !.output = Some(OpenApiDocument(run.all_routes))]
    /\ UNCHANGED <<extractVars, schemaVars, earlier, iterated, discovered, joined, builder>>

InitDriver ==
    /\ parsed_files \in SeqsUpTo(DriverFiles, MaxFiles)
    /\ \E args_framework \in {None, Some("axum"), Some("actix")} :
          run = [RunOff EXCEPT !.pc = "parse", !.args_framework = args_framework]
    /\ framework = "axum"
    /\ pc = "done"
    /\ file_idx = 0
    /\ work = <<>>
    /\ routes = <<>>
    /\ current_prefix = <<>>
    /\ current_scope = <<>>
    /\ functions = <<>>
    /\ SchemaIdle
    /\ earlier = <<>>
    /\ discovered = <<>>
    /\ iterated = <<>>
    /\ joined = NotJoined
    /\ builder = BuilderOff

NextDriver ==
    \/ run_parse
    \/ run_frameworks
    \/ run_extract_routes
    \/ visit_file
    \/ visit_default
    \/ Axum_visit_expr_method_call
    \/ Axum_visit_item_fn
    \/ Actix_visit_item_fn
    \/ Actix_visit_expr_method_call
    \/ Actix_visit_expr_method_call_return
    \/ Axum_extract_routes_pass2
    \/ Actix_extract_routes_pass2
    \/ run_extend
    \/ run_output

SpecDriver == InitDriver /\ [][NextDriver]_vars

\* FrameworkDetector::detect(&parsed_files), called by itself: the result
\* vector is the hash set's content in the order its iteration gives
FrameworkDetector_detect_result ==
    /\ run.pc = "detect"
    /\ \E frameworks \in Orders(FrameworkDetector_detect(parsed_files)) :
          run' = [run EXCEPT !.pc = "detected", !.frameworks = frameworks]
    /\ UNCHANGED <<extractVars, schemaVars, earlier, iterated, discovered, joined, builder>>

InitDetect ==
    /\ parsed_files \in SeqsUpTo(DriverFiles, MaxFiles)
    /\ run = [RunOff EXCEPT !.pc = "detect"]
    /\ framework = "axum"
    /\ pc = "done"
    /\ file_idx = 0
    /\ work = <<>>
    /\ routes = <<>>
    /\ current_prefix = <<>>
    /\ current_scope = <<>>
    /\ functions = <<>>
    /\ SchemaIdle
    /\ earlier = <<>>
    /\ discovered = <<>>
    /\ iterated = <<>>
    /\ joined = NotJoined
    /\ builder = BuilderOff

NextDetect ==
    \/ FrameworkDetector_detect_result

SpecDetect == InitDetect /\ [][NextDetect]_vars

----------------------------------------------------------------------------
\* combine_paths of both visitors, applied to any prefix and path.

MaxPath == 3

PathChars == {"/", "a"}

AxumVisitor_combine_paths ==
    /\ joined.axum = None
    /\ joined' = [joined EXCEPT !.axum = Some(Axum_combine_paths(joined.prefix, joined.path))]
    /\ UNCHANGED <<extractVars, schemaVars, earlier, iterated, discovered, run, builder>>

ActixVisitor_combine_paths ==
    /\ joined.actix = None
    /\ joined' = [joined EXCEPT !.actix = Some(Actix_combine_paths(joined.prefix, joined.path))]
    /\ UNCHANGED <<extractVars, schemaVars, earlier, iterated, discovered, run, builder>>

InitCombine ==
    /\ \E prefix \in SeqsUpTo(PathChars, MaxPath), path \in SeqsUpTo(PathChars, MaxPath) :
          joined = [NotJoined EXCEPT !.prefix = prefix, !.path = path]
    /\ ExtractIdle
    /\ SchemaIdle
    /\ earlier = <<>>
    /\ discovered = <<>>
    /\ iterated = <<>>
    /\ run = RunOff
    /\ builder = BuilderOff

NextCombine ==
    \/ AxumVisitor_combine_paths
    \/ ActixVisitor_combine_paths

SpecCombine == InitCombine /\ [][NextCombine]_vars

----------------------------------------------------------------------------
(***************************************************************************)
(* openapi_builder.rs: OpenApiBuilder::add_route, for the routes cli::run  *)
(* hands it one after the other, with a generator whose resolver holds no  *)
(* declaration.                                                            *)
(***************************************************************************)

\* routes cli::run adds to one document
MaxRoutes == 3

\* [String]::join(c)
RECURSIVE join(_, _)
join(parts, c) ==
    IF parts = <<>> THEN <<>>
    ELSE IF Len(parts) = 1 THEN parts[1]
    ELSE parts[1] \o <<c>> \o join(Tail(parts), c)

RouteInfo_method_str(route) ==
    CASE route.method = "Get" -> "GET"
      [] route.method = "Post" -> "POST"
      [] route.method = "Put" -> "PUT"
      [] route.method = "Delete" -> "DELETE"
      [] route.method = "Patch" -> "PATCH"
      [] route.method = "Options" -> "OPTIONS"
      [] route.method = "Head" -> "HEAD"

OpenApiBuilder_convert_path_format(path) ==
    LET parts == split(path, "/")
        converted(part) == IF starts_with(part, ":")
                           THEN <<"{">> \o Tail(part) \o <<"}">>
                           ELSE part
    IN  join([i \in 1..Len(parts) |-> converted(parts[i])], "/")

\* generate_schema for type_info and then for the types after it, where no
\* name resolves to a declaration: the schemas, and the resolver's cache
RECURSIVE SchemaGenerator_generate_schemas(_, _)
SchemaGenerator_generate_schemas(type_infos, cache) ==
    IF type_infos = <<>> THEN [schemas |-> <<>>, cache |-> cache]
    ELSE LET type_info == Head(type_infos)
             inner == SchemaGenerator_generate_schemas(<<type_info.generic_args[1]>>, cache)
             r == TypeResolver_resolve_type(type_files, cache, resolving_stack, type_info.name)
             first ==
                 IF type_info.is_option /\ type_info.generic_args # <<>>
                 THEN [schema |-> inner.schemas[1], cache |-> inner.cache]
                 ELSE IF type_info.is_vec /\ type_info.generic_args # <<>>
                 THEN [schema |-> ArraySchema(inner.schemas[1]), cache |-> inner.cache]
                 ELSE [schema |-> IF r.result # None /\ r.result[1].kind = "Primitive"
                                  THEN SchemaGenerator_primitive_to_schema(r.result[1].def)
                                  ELSE ObjectSchema,
                       cache |-> r.cache]
             rest == SchemaGenerator_generate_schemas(Tail(type_infos), first.cache)
         IN  [schemas |-> <<first.schema>> \o rest.schemas, cache |-> rest.cache]

SchemaGenerator_generate_parameter_schema(param, schema) ==
    [name |-> param.name,
     location |-> CASE param.location = "Path" -> "path"
                    [] param.location = "Query" -> "query"
                    [] param.location = "Header" -> "header",
     required |-> param.required, schema |-> schema]

\* the Operation add_route creates, generated being the schemas of the
\* route's parameters, request body and response, in this order
OpenApiBuilder_operation(route, generated) ==
    LET n == Len(route.parameters)
        body == IF IsSome(route.request_body) THEN Some(generated[n + 1]) ELSE None
        response == IF IsSome(route.response_type) THEN Some(generated[Len(generated)]) ELSE None
    IN  [summary |-> <<RouteInfo_method_str(route), " ">> \o route.path,
         operation_id |-> route.handler_name,
         parameters |-> IF n = 0 THEN None
                        ELSE Some([p \in 1..n |->
                                 SchemaGenerator_generate_parameter_schema(
                                     route.parameters[p], generated[p])]),
         request_body |-> body,
         responses |-> [content |-> response]]

PathItem_new ==
    [Get |-> None, Post |-> None, Put |-> None, Delete |-> None, Patch |-> None,
     Options |-> None, Head |-> None]

\* mutant: the path's entry is made anew for every route
OpenApiBuilder_path_item_Fresh(paths, openapi_path) == PathItem_new

\* self.paths.entry(openapi_path).or_insert_with(..)
OpenApiBuilder_path_item(paths, openapi_path) ==
    IF openapi_path \in DOMAIN paths THEN paths[openapi_path] ELSE PathItem_new

\* builder.add_route(route, &mut schema_gen), for the next route of all_routes
run_add_route ==
    /\ builder.idx < Len(builder.all_routes)
    /\ LET route == builder.all_routes[builder.idx + 1]
           openapi_path == OpenApiBuilder_convert_path_format(route.path)
           generated == SchemaGenerator_generate_schemas(RouteTypes(route), type_cache)
           operation == OpenApiBuilder_operation(route, generated.schemas)
           path_item == OpenApiBuilder_path_item(builder.paths, openapi_path)
       IN  /\ type_cache' = generated.cache
           /\ builder' = [builder EXCEPT
                             !.idx = builder.idx + 1,
                             !.paths = Insert(builder.paths, openapi_path,
                                              [path_item EXCEPT ![route.method] = Some(operation)])]
    /\ UNCHANGED <<type_files, resolving_stack, schemas, stack, ret, status, calls, log>>
    /\ UNCHANGED <<extractVars, earlier, iterated, discovered, run, joined>>

\* the routes of get_user and create_user, as each extractor gives them for
\* /users and /users/<id>
BuilderRoute(path, parameters, method, handler_name) ==
    [RouteInfo_new(path, method, handler_name) EXCEPT
        !.parameters = parameters,
        !.request_body = IF handler_name = "create_user"
                         THEN Some(TypeInfo_new("CreateUser")) ELSE None,
        !.response_type = IF handler_name = "create_user"
                          THEN Some(TypeInfo_vec(TypeInfo_new("String"))) ELSE None]

BuilderRoutes ==
    {BuilderRoute(PathUsers, <<>>, "Get", "get_user"),
     BuilderRoute(PathUsers, <<>>, "Post", "create_user")}
    \cup {BuilderRoute(PathUsersId, Axum_extract_path_parameters(PathUsersId), "Get", h) :
              h \in {"get_user", "create_user"}}
    \cup {BuilderRoute(PathUsersIdBraces, Actix_extract_path_parameters(PathUsersIdBraces),
                       "Get", h) : h \in {"get_user", "create_user"}}
    \cup {BuilderRoute(PathUsersIdBraces, Actix_extract_path_parameters(PathUsersIdBraces),
                       "Post", "create_user")}

\* OpenApiBuilder::new(), SchemaGenerator::new(TypeResolver::new(..)) over
\* files without a declaration, and the routes collected
InitBuilder ==
    /\ \E all_routes \in SeqsUpTo(BuilderRoutes, MaxRoutes) :
          builder = [BuilderOff EXCEPT !.all_routes = all_routes]
    /\ ExtractIdle
    /\ SchemaIdle
    /\ earlier = <<>>
    /\ discovered = <<>>
    /\ iterated = <<>>
    /\ run = RunOff
    /\ joined = NotJoined

NextBuilder ==
    \/ run_add_route

SpecBuilder == InitBuilder /\ [][NextBuilder]_vars

----------------------------------------------------------------------------
(***************************************************************************)
(* Properties of the resolver and the generator.                           *)
(***************************************************************************)

\* the declarations the session's files hold
Declared(kind) ==
    {Flatten(type_files)[i].ident :
        i \in {j \in 1..Len(Flatten(type_files)) : Flatten(type_files)[j].k = kind}}

\* the names that resolve to a record or an enum
RecordOrEnum ==
    {name \in Declared("ItemStruct") \cup Declared("ItemEnum") :
        TypeResolver_parse_primitive_type(name) = None}

\* the field types of a declared record, below their Option and Vec wrappers
RECURSIVE Unwrapped(_)
Unwrapped(ty) ==
    IF ty.k = "Path" /\ ty.name \in {"Option", "Vec"} /\ Len(ty.args) > 0
    THEN Unwrapped(ty.args[1])
    ELSE ty

FieldTypeNames(name) ==
    LET items == Flatten(type_files)
    IN  UNION {{Unwrapped(items[i].fields[f].ty).name : f \in 1..Len(items[i].fields)} :
                  i \in {j \in 1..Len(items) :
                            items[j].k = "ItemStruct" /\ items[j].ident = name}}

\* some record of the session refers to itself, directly or through other records
RECURSIVE ReachableFrom(_, _)
ReachableFrom(names, n) ==
    IF n = 0 THEN names
    ELSE ReachableFrom(names \cup UNION {FieldTypeNames(name) : name \in names}, n - 1)

SelfReferential(name) ==
    name \in ReachableFrom(FieldTypeNames(name), Cardinality(Declared("ItemStruct")))

\* C1: a self-referential record type (Tree { children: Vec<Tree> }, or
\* records that refer to each other) makes neither resolve_type nor
\* generate_schema recurse without bound: no call on such a type exhausts the
\* stack, a resolve_type call on it returns the record, and the catalog holds
\* at most one entry, an entry of a declared type, for each name.
C1_SelfReferenceTerminates ==
    /\ status # "overflow"
    /\ DOMAIN schemas \subseteq RecordOrEnum
    /\ (ret # <<>> /\ ret.from = "resolve_type" /\ SelfReferential(ret.arg)) =>
          /\ IsSome(ret.value)
          /\ ret.value[1].kind = "Struct"
          /\ resolving_stack = {}

\* the names a schema or property node refers to, directly or as array items
RECURSIVE References(_)
References(node) ==
    (IF IsSome(node.reference) THEN {node.reference[1][2]} ELSE {})
        \cup (IF IsSome(node.items) THEN References(node.items[1]) ELSE {})

CatalogReferences ==
    UNION {IF IsSome(schemas[name].properties)
           THEN UNION {References(schemas[name].properties[1][key]) :
                          key \in DOMAIN schemas[name].properties[1]}
           ELSE {} : name \in DOMAIN schemas}

OnlyReference(node, name) ==
    /\ node.reference = Some(Reference(name))
    /\ node.items = None
    /\ node.format = None

\* the property of every field of a catalog entry whose type, below Option and
\* Vec, is a record or an enum refers to that type
RECURSIVE RefersTo(_, _)
RefersTo(node, type_info) ==
    IF type_info.is_option /\ type_info.generic_args # <<>>
    THEN RefersTo(node, type_info.generic_args[1])
    ELSE IF type_info.is_vec /\ type_info.generic_args # <<>>
    THEN IsSome(node.items) /\ RefersTo(node.items[1], type_info.generic_args[1])
    ELSE type_info.name \in RecordOrEnum => OnlyReference(node, type_info.name)

FieldsOf(name) == TypeResolver_parse_struct_definition(
                      TypeResolver_find_struct_definition(type_files, name)[1]).def

PropertiesRefer(name) ==
    \A f \in 1..Len(FieldsOf(name)) :
        LET field == FieldsOf(name)[f]
        IN  ~field.serde_attrs.skip =>
                /\ FieldName(field) \in DOMAIN schemas[name].properties[1]
                /\ RefersTo(schemas[name].properties[1][FieldName(field)], field.type_info)

\* C10: records and enums are never inlined.  When a generate_schema call
\* returns, the node returned for a record or an enum is a reference
\* #/components/schemas/<Name> and nothing else; every property of a catalog
\* entry whose field is of a record or enum type (below Option and Vec) is
\* such a reference; and every name referred to by the returned node or by a
\* catalog entry, directly or as array items, is a key of the catalog.
C10_ReferencesClosed ==
    (ret # <<>> /\ ret.from = "generate_schema") =>
        /\ (/\ ~ret.arg.is_option
            /\ ~ret.arg.is_vec
            /\ ret.arg.name \in RecordOrEnum) =>
                /\ ret.value = ReferenceSchema(ret.arg.name)
                /\ ret.arg.name \in DOMAIN schemas
        /\ References(ret.value) \cup CatalogReferences \subseteq DOMAIN schemas
        /\ \A name \in DOMAIN schemas :
              IsSome(schemas[name].properties) => PropertiesRefer(name)

\* C10 witness: generate_schema(Response) has returned; the catalog holds
\* Response and User, and data is an array whose items refer to User and is
\* not required
C10_Witness ==
    /\ ret # <<>>
    /\ ret.from = "generate_schema"
    /\ status = "idle"
    /\ ret.arg = TypeInfo_new("Response")
    /\ ret.value = ReferenceSchema("Response")
    /\ {"Response", "User"} \subseteq DOMAIN schemas
    /\ IsSome(schemas["Response"].properties)
    /\ <<"d", "a", "t", "a">> \in DOMAIN schemas["Response"].properties[1]
    /\ schemas["Response"].properties[1][<<"d", "a", "t", "a">>] =
           Property(Some("array"), None, Some(ReferenceSchema("User")), None)
    /\ schemas["Response"].required = Some(<<<<"s", "t", "a", "t", "u", "s">>>>)


\* the returns of the same function for the same argument are alike
SameRequest(i, j) == log[i].fn = log[j].fn /\ log[i].arg = log[j].arg

C11_Step ==
    /\ \A name \in DOMAIN schemas :
          name \in DOMAIN schemas' /\ schemas'[name] = schemas[name]
    /\ \A i \in 1..Len(log') : \A j \in (i + 1)..Len(log') :
          SameRequest(i, j)' =>
              /\ log'[j].value = log'[i].value
              /\ log'[j].fn = "generate_schema" => log'[j].schemas = log'[j - 1].schemas

\* C11: within one session a second resolve_type of a name returns what the
\* first returned, a second generate_schema of a type returns the node the
\* first returned and leaves the catalog as it was before the call, and no
\* step ever replaces or removes a catalog entry (the catalog is a map: one
\* entry per name).
C11_Idempotent == [][C11_Step]_vars

\* C11 witness: generate_schema(Response) was called and returned twice, with
\* the catalog filled by the first call
C11_Witness ==
    /\ Len(log) = 2
    /\ log[1].fn = "generate_schema"
    /\ log[2].fn = "generate_schema"
    /\ log[1].arg = TypeInfo_new("Response")
    /\ log[2].arg = TypeInfo_new("Response")
    /\ log[2].value = ReferenceSchema("Response")
    /\ {"Response", "User", "Status", "Team"} \subseteq DOMAIN log[2].schemas


\* the arguments of a serde attribute: its tokens between the commas, trimmed
SerdeArguments(field) ==
    UNION {{trim(split(field.attrs[a].tokens, ",")[p]) :
               p \in 1..Len(split(field.attrs[a].tokens, ","))} :
           a \in {b \in 1..Len(field.attrs) : field.attrs[b].name = "serde"}}

\* a field declared with #[serde(skip)]
MarkedSkip(field) == <<"s", "k", "i", "p">> \in SerdeArguments(field)

OptionWrapped(field) ==
    field.ty.k = "Path" /\ field.ty.name = "Option" /\ Len(field.ty.args) > 0

\* the key of a declared field: its rename value, or else its name
KeyOf(field) ==
    IF IsSome(TypeResolver_parse_serde_attributes(field.attrs).rename)
    THEN TypeResolver_parse_serde_attributes(field.attrs).rename[1]
    ELSE field.ident[1]

\* the declared, named fields of a record that are not marked skip
KeptFields(name) ==
    SelectSeq(TypeResolver_find_struct_definition(type_files, name)[1].fields,
              LAMBDA field : IsSome(field.ident) /\ ~MarkedSkip(field))

\* C12: the object schema of a record in the catalog has exactly one property
\* per declared field that is not marked skip, under the field's rename value
\* or else its name, and its required list holds exactly the keys of those of
\* these fields whose type is not Option<..>.
C12_PropertiesAndRequired ==
    \A name \in DOMAIN schemas :
        IsSome(schemas[name].properties) =>
            LET kept == KeptFields(name)
                required == IF IsSome(schemas[name].required)
                            THEN schemas[name].required[1] ELSE <<>>
            IN  /\ DOMAIN schemas[name].properties[1] = {KeyOf(kept[f]) : f \in 1..Len(kept)}
                /\ Cardinality(DOMAIN schemas[name].properties[1]) = Len(kept)
                /\ {required[r] : r \in 1..Len(required)}
                       = {KeyOf(kept[f]) : f \in {g \in 1..Len(kept) : ~OptionWrapped(kept[g])}}


\* a name that matches no primitive, record or enum declaration
Unresolvable(type_name) ==
    /\ TypeResolver_parse_primitive_type(type_name) = None
    /\ type_name \notin RecordOrEnum

\* the request whose handling the step is part of: the one that is running
\* or, for resolve_type, the one the step logs
UnresolvableRequest ==
    \/ /\ stack # <<>>
       /\ stack[Len(stack)].fn = "generate_schema"
       /\ stack[Len(stack)].arg.generic_args = <<>>
       /\ Unresolvable(stack[Len(stack)].arg.name)
    \/ /\ Len(log') = Len(log) + 1
       /\ log'[Len(log')].fn = "resolve_type"
       /\ Unresolvable(log'[Len(log')].arg)

\* C13: a request for a name that matches no primitive, record or enum
\* declaration changes neither the resolver's cache nor the catalog and does
\* not abort; resolve_type returns none, generate_schema returns an `object`
\* schema without reference and properties; and a request for a declared
\* type that follows it in the session is answered with the declared type.
C13_Step ==
    /\ UnresolvableRequest =>
          /\ type_cache' = type_cache
          /\ schemas' = schemas
          /\ status' # "overflow"
          /\ Len(log') = Len(log) + 1
          /\ log'[Len(log')].fn = "resolve_type" => log'[Len(log')].value = None
          /\ log'[Len(log')].fn = "generate_schema" =>
                /\ log'[Len(log')].value.schema_type = Some("object")
                /\ log'[Len(log')].value.reference = None
                /\ log'[Len(log')].value.properties = None
    /\ \A i \in 1..Len(log') : \A j \in (i + 1)..Len(log') :
          /\ log'[i].fn = "resolve_type" => Unresolvable(log'[i].arg)
          /\ log'[i].fn = "generate_schema" => log'[i].value = ObjectSchema
          => /\ (log'[j].fn = "resolve_type" /\ log'[j].arg \in RecordOrEnum)
                    => (IsSome(log'[j].value) /\ log'[j].value[1].name = log'[j].arg)
             /\ (log'[j].fn = "generate_schema" /\ log'[j].arg.generic_args = <<>>
                 /\ log'[j].arg.name \in RecordOrEnum)
                    => /\ log'[j].value = ReferenceSchema(log'[j].arg.name)
                       /\ log'[j].arg.name \in DOMAIN log'[j].schemas

C13_UnresolvableFallback == [][C13_Step]_vars

\* generate_schema(Missing) returned the fallback, then generate_schema(Response)
\* filled the catalog
C13_Witness ==
    /\ Len(log) = 2
    /\ log[1].fn = "generate_schema" /\ log[1].arg = TypeInfo_new("Missing")
    /\ log[1].value = ObjectSchema /\ log[1].schemas = <<>>
    /\ log[2].fn = "generate_schema" /\ log[2].arg = TypeInfo_new("Response")
    /\ log[2].value = ReferenceSchema("Response")
    /\ type_cache # <<>> /\ "Missing" \notin DOMAIN type_cache


C15_InsertionOrdered ==
    status = "built" => iterated = discovered


\* the shape of a type descriptor and of every descriptor below it
RECURSIVE WellFormed(_)
WellFormed(type_info) ==
    /\ ~(type_info.is_option /\ type_info.is_vec)
    /\ (type_info.is_option \/ type_info.is_vec) => Len(type_info.generic_args) = 1
    /\ ~(type_info.is_option \/ type_info.is_vec) => type_info.generic_args = <<>>
    /\ \A a \in 1..Len(type_info.generic_args) : WellFormed(type_info.generic_args[a])

\* C16: in every type descriptor the resolver made for a field of a record
\* it resolved, is_option and is_vec are not both true, an Option or Vec node
\* has exactly one generic argument, and a node that is neither has none.
C16_TypeInfoShape ==
    \A name \in DOMAIN type_cache :
        type_cache[name].kind = "Struct" =>
            \A f \in 1..Len(type_cache[name].def) :
                WellFormed(type_cache[name].def[f].type_info)


\* the root segments of the paths an import declaration imports
RECURSIVE RootSegments(_)
RootSegments(tree) ==
    CASE tree.k \in {"Path", "Rename", "Name"} -> {tree.ident}
      [] tree.k = "Group" ->
            UNION {RootSegments(tree.items[i]) : i \in 1..Len(tree.items)}
      [] tree.k = "Glob" -> {}

ImportedRoots ==
    UNION {RootSegments(AllItems[i].tree) :
              i \in {j \in 1..Len(AllItems) : AllItems[j].k = "ItemUse"}}

\* C17: detection reports a framework if and only if some import declaration
\* has the framework's identifier as the root segment of an imported path.
C17_DetectsRootSegments ==
    (run.pc \in {"error", "extract", "extracting", "done"}
     /\ parsed_files # <<>> /\ run.args_framework = None) =>
        /\ ("axum" \in {run.frameworks[i] : i \in 1..Len(run.frameworks)})
               <=> ("axum" \in ImportedRoots)
        /\ ("actix" \in {run.frameworks[i] : i \in 1..Len(run.frameworks)})
               <=> ("actix_web" \in ImportedRoots)


\* the extractor is at work or has been: a tree was visited
Extracted == file_idx > 0 \/ routes # <<>> \/ functions # <<>> \/ pc = "visit"

\* C18: with no framework given and nothing detected the run ends in an error,
\* with no route extracted and no output; with a framework given the
\* frameworks to extract are exactly that one, whatever the imports say, and
\* only its extractor runs; a finished run has written a document, and has
\* warned exactly when it found no routes.
C18_Driver ==
    /\ run.pc = "error" =>
          /\ ~Extracted
          /\ run.all_routes = <<>> /\ run.output = None
          /\ \/ parsed_files = <<>>
             \/ run.args_framework = None /\ FrameworkDetector_detect(parsed_files) = {}
    /\ (run.args_framework = None /\ FrameworkDetector_detect(parsed_files) = {}) =>
          run.pc \in {"parse", "frameworks", "error"} /\ ~Extracted
    /\ IsSome(run.args_framework) =>
          /\ run.pc \in {"extract", "extracting", "done"} =>
                run.frameworks = <<run.args_framework[1]>>
          /\ Extracted => framework = run.args_framework[1]
          /\ Len(run.all_routes) > 0 => run.idx = 1
    /\ run.pc = "done" =>
          /\ run.output = Some(OpenApiDocument(run.all_routes))
          /\ run.warned <=> run.all_routes = <<>>
          /\ run.idx = Len(run.frameworks)

\* no import names a framework, actix-web is given, its extractor ran and
\* found nothing: the run warned and wrote a document without operations
C18_Witness ==
    /\ run.pc = "done"
    /\ run.args_framework = Some("actix")
    /\ FrameworkDetector_detect(parsed_files) = {"axum"}
    /\ framework = "actix" /\ file_idx = Len(parsed_files) /\ functions # <<>>
    /\ run.all_routes = <<>> /\ run.warned
    /\ run.output = Some(OpenApiDocument(<<>>))


\* s without its trailing slashes, and without its leading slashes
StripTrailing(s) ==
    SubSeq(s, 1, CHOOSE n \in 0..Len(s) :
                    /\ \A i \in (n + 1)..Len(s) : s[i] = "/"
                    /\ n > 0 => s[n] # "/")

StripLeading(s) ==
    SubSeq(s, 1 + (CHOOSE n \in 0..Len(s) :
                      /\ \A i \in 1..n : s[i] = "/"
                      /\ n < Len(s) => s[n + 1] # "/"), Len(s))

Results == joined.axum \o joined.actix

\* C20 as stated: for every prefix and every suffix the combination is the
\* prefix without trailing slashes, one slash, and the suffix without leading
\* slashes, and the prefix alone when the suffix is empty; both extractors
\* give the same.
C20_CombineRule ==
    /\ \A r \in 1..Len(Results) :
          Results[r] = IF joined.path = <<>> THEN joined.prefix
                       ELSE StripTrailing(joined.prefix) \o <<"/">> \o StripLeading(joined.path)
    /\ Len(Results) = 2 => Results[1] = Results[2]

\* C20 as amended: for a non-empty prefix the combination is the prefix
\* without trailing slashes, followed, when the suffix has a character other
\* than a slash, by one slash and the suffix without leading slashes; for the
\* empty prefix it is the suffix unchanged; both extractors give the same.
C20_CombineAmended ==
    /\ \A r \in 1..Len(Results) :
          Results[r] = IF joined.prefix = <<>> THEN joined.path
                       ELSE IF StripLeading(joined.path) = <<>>
                       THEN StripTrailing(joined.prefix)
                       ELSE StripTrailing(joined.prefix) \o <<"/">> \o StripLeading(joined.path)
    /\ Len(Results) = 2 => Results[1] = Results[2]

\* "/a/" and "/a" were combined by both extractors to "/a/a"
C20_Witness ==
    /\ joined.prefix = <<"/", "a", "/">>
    /\ joined.path = <<"/", "a">>
    /\ joined.axum = Some(<<"/", "a", "/", "a">>)
    /\ joined.actix = Some(<<"/", "a", "/", "a">>)


\* the position of the first slash of path at or after position i, or else
\* the position after its last character
SegmentEnd(path, i) ==
    CHOOSE e \in i..(Len(path) + 1) :
        /\ e = Len(path) + 1 \/ path[e] = "/"
        /\ \A h \in i..(e - 1) : path[h] # "/"

\* the name in a parameter segment (`:name`; `{name}`), none for another segment
SegmentName(segment) ==
    IF framework = "axum"
    THEN IF Len(segment) >= 1 /\ segment[1] = ":" THEN <<Tail(segment)>> ELSE <<>>
    ELSE IF Len(segment) >= 2 /\ segment[1] = "{" /\ segment[Len(segment)] = "}"
         THEN <<SubSeq(segment, 2, Len(segment) - 1)>>
         ELSE <<>>

\* the names of the parameter segments of path from position i on, in order
RECURSIVE SegmentNames(_, _)
SegmentNames(path, i) ==
    IF i > Len(path) + 1 THEN <<>>
    ELSE SegmentName(SubSeq(path, i, SegmentEnd(path, i) - 1))
             \o SegmentNames(path, SegmentEnd(path, i) + 1)

\* C19: the parameters pass 1 gives a route are one per parameter segment of
\* its path, in segment order, named after the segment, with location Path,
\* required and of type String (none for a path without such a segment);
\* pass 2 keeps them at the head of the list.
C19_PathParameters ==
    \A r \in 1..Len(routes) :
        LET names == SegmentNames(routes[r].path, 1)
        IN  /\ Len(routes[r].parameters) >= Len(names)
            /\ pc = "visit" => Len(routes[r].parameters) = Len(names)
            /\ \A n \in 1..Len(names) :
                  /\ routes[r].parameters[n].name = names[n]
                  /\ routes[r].parameters[n].location = "Path"
                  /\ routes[r].parameters[n].required
                  /\ routes[r].parameters[n].type_info = TypeInfo_new("String")

\* pass 1 of each extractor on the two-parameter path, and a route without
\* parameters beside it
C19_Witness ==
    /\ pc = "visit"
    /\ \E r \in 1..Len(routes) :
          /\ routes[r].path = (IF framework = "axum" THEN PathTask ELSE PathTaskBraces)
          /\ Len(routes[r].parameters) = 2
          /\ routes[r].parameters[1].name = <<"o", "r", "g">>
          /\ routes[r].parameters[2].name = <<"i", "d">>
    /\ \E r \in 1..Len(routes) :
          routes[r].path = PathUsers /\ routes[r].parameters = <<>>

----------------------------------------------------------------------------
(* Handlers declared at the top level of a file (attribute routing).       *)

\* the HTTP method a method attribute names, none for another attribute
MethodOfAttribute(name) ==
    CASE name = "get" -> Some("Get")
      [] name = "post" -> Some("Post")
      [] name = "put" -> Some("Put")
      [] name = "delete" -> Some("Delete")
      [] name = "patch" -> Some("Patch")
      [] name = "head" -> Some("Head")
      [] name = "options" -> Some("Options")
      [] OTHER -> None

\* the value of the string literal the tokens consist of, none for other tokens
StringLiteral(tokens) ==
    IF Len(tokens) >= 2 /\ tokens[1] = "\"" /\ tokens[Len(tokens)] = "\""
       /\ \A i \in 2..(Len(tokens) - 1) : tokens[i] # "\""
    THEN Some(SubSeq(tokens, 2, Len(tokens) - 1))
    ELSE None

\* <<literal, method, function name>> of every method attribute of the
\* function declaration whose argument is one string literal
MethodAttributes(fn) ==
    LET declared(attr) ==
            IF attr.meta = "List" /\ IsSome(MethodOfAttribute(attr.name))
               /\ IsSome(StringLiteral(attr.tokens))
            THEN <<[path |-> StringLiteral(attr.tokens)[1],
                    method |-> MethodOfAttribute(attr.name)[1],
                    handler_name |-> fn.sig.ident]>>
            ELSE <<>>
    IN  Flatten([a \in 1..Len(fn.attrs) |-> declared(fn.attrs[a])])

\* the method attributes of the functions declared at the top level of the files
TopLevelAttributes ==
    Flatten([i \in 1..Len(AllItems) |->
                IF AllItems[i].k = "ItemFn" THEN MethodAttributes(AllItems[i]) ELSE <<>>])

Declares(route) ==
    [path |-> route.path, method |-> route.method, handler_name |-> route.handler_name]

\* C21: in the attribute-routing extractor, after the traversal the routes
\* hold, for every method attribute of a function declared at the top level
\* of a file, one route per such attribute with exactly the attribute's
\* literal as path, its method and the function as handler, whatever
\* .service(handler) registrations inside web::scope("...") groups name it.
C21_TopLevelHandlers ==
    (framework = "actix" /\ (Traversed \/ pc = "done")) =>
        \A a \in 1..Len(TopLevelAttributes) :
            Cardinality({r \in 1..Len(routes) : Declares(routes[r]) = TopLevelAttributes[a]})
                = Cardinality({b \in 1..Len(TopLevelAttributes) :
                                  TopLevelAttributes[b] = TopLevelAttributes[a]})

----------------------------------------------------------------------------
(* The path entries of the document.                                       *)

\* the path with every segment `:name` written `{name}`, from position i on;
\* open: position i is inside such a segment
RECURSIVE NormalizedFrom(_, _, _)
NormalizedFrom(path, i, open) ==
    LET close == IF open THEN <<"}">> ELSE <<>>
    IN  IF i > Len(path) THEN close
        ELSE IF path[i] = "/" THEN close \o <<"/">> \o NormalizedFrom(path, i + 1, FALSE)
        ELSE IF path[i] = ":" /\ (i = 1 \/ path[i - 1] = "/")
        THEN <<"{">> \o NormalizedFrom(path, i + 1, TRUE)
        ELSE <<path[i]>> \o NormalizedFrom(path, i + 1, open)

Normalized(path) == NormalizedFrom(path, 1, FALSE)

HttpMethods == {"Get", "Post", "Put", "Delete", "Patch", "Options", "Head"}

\* the positions among the routes of those with the normalized path and the method
AddedAt(added, openapi_path, method) ==
    {i \in 1..Len(added) :
        Normalized(added[i].path) = openapi_path /\ added[i].method = method}

\* the operation is the one of the route
OperationOf(operation, route) ==
    /\ operation.operation_id = route.handler_name
    /\ operation.summary = <<RouteInfo_method_str(route), " ">> \o route.path
    /\ IsSome(operation.parameters) = (route.parameters # <<>>)
    /\ IsSome(operation.parameters) =>
          /\ Len(operation.parameters[1]) = Len(route.parameters)
          /\ \A p \in 1..Len(route.parameters) :
                operation.parameters[1][p].name = route.parameters[p].name
    /\ IsSome(operation.request_body) = IsSome(route.request_body)
    /\ IsSome(operation.responses.content) = IsSome(route.response_type)

\* C22: after every add_route call the document has exactly one path entry
\* per distinct normalized path of the routes added so far (`:name` segments
\* written `{name}`, other segments unchanged, normalizing twice being the
\* same as once); each entry holds, per HTTP method, the operation of the last
\* route added with that normalized path and method, and nothing for a method
\* no such route has; and the call changes no operation of another method
\* or path.
C22_Step ==
    LET added == SubSeq(builder'.all_routes, 1, builder'.idx)
        route == builder.all_routes[builder.idx + 1]
    IN  /\ DOMAIN builder'.paths = {Normalized(added[i].path) : i \in 1..Len(added)}
        /\ \A i \in 1..Len(added) :
              LET converted == OpenApiBuilder_convert_path_format(added[i].path)
              IN  /\ converted = Normalized(added[i].path)
                  /\ OpenApiBuilder_convert_path_format(converted) = converted
        /\ \A openapi_path \in DOMAIN builder'.paths : \A method \in HttpMethods :
              LET at == AddedAt(added, openapi_path, method)
                  slot == builder'.paths[openapi_path][method]
              IN  IF at = {} THEN slot = None
                  ELSE /\ IsSome(slot)
                       /\ OperationOf(slot[1], added[CHOOSE i \in at : \A j \in at : j <= i])
        /\ builder'.idx = builder.idx + 1 =>
              \A openapi_path \in DOMAIN builder.paths : \A method \in HttpMethods :
                  (openapi_path # Normalized(route.path) \/ method # route.method)
                      => builder'.paths[openapi_path][method] = builder.paths[openapi_path][method]

C22_PathEntries == [][C22_Step]_vars

\* GET /users/:id of get_user, then GET /users/{id} of create_user and
\* POST /users/{id}: one entry, whose GET operation is create_user's
C22_Witness ==
    /\ builder.idx = 3
    /\ builder.all_routes[1].path = PathUsersId /\ builder.all_routes[1].method = "Get"
    /\ builder.all_routes[1].handler_name = "get_user"
    /\ builder.all_routes[2].path = PathUsersIdBraces /\ builder.all_routes[2].method = "Get"
    /\ builder.all_routes[2].handler_name = "create_user"
    /\ builder.all_routes[3].path = PathUsersIdBraces /\ builder.all_routes[3].method = "Post"
    /\ DOMAIN builder.paths = {PathUsersIdBraces}
    /\ builder.paths[PathUsersIdBraces]["Get"][1].operation_id = "create_user"
    /\ IsSome(builder.paths[PathUsersIdBraces]["Post"])
    /\ builder.paths[PathUsersIdBraces]["Put"] = None

----------------------------------------------------------------------------
(* The detector's result.                                                  *)

\* every identifier of an import tree, at any position
RECURSIVE Identifiers(_)
Identifiers(tree) ==
    CASE tree.k = "Path" -> {tree.ident} \cup Identifiers(tree.tree)
      [] tree.k \in {"Rename", "Name"} -> {tree.ident}
      [] tree.k = "Group" ->
            UNION {Identifiers(tree.items[i]) : i \in 1..Len(tree.items)}
      [] tree.k = "Glob" -> {}

ImportedIdentifiers ==
    UNION {Identifiers(AllItems[i].tree) :
              i \in {j \in 1..Len(AllItems) : AllItems[j].k = "ItemUse"}}

\* the files in every order
Reordered ==
    {[i \in 1..Len(parsed_files) |-> parsed_files[order[i]]] :
        order \in Orders(1..Len(parsed_files))}

\* C23: detect returns for every list of trees (the empty list included); its
\* result holds no framework twice, however many imports and trees name it;
\* the set of the frameworks in it is the same for every order of the trees;
\* and it is empty for no tree and for trees no import of which names a
\* framework.
C23_DetectOnce ==
    /\ run.pc = "detect" => ENABLED FrameworkDetector_detect_result
    /\ run.pc = "detected" =>
          LET detected == {run.frameworks[i] : i \in 1..Len(run.frameworks)}
          IN  /\ \A i, j \in 1..Len(run.frameworks) :
                    run.frameworks[i] = run.frameworks[j] => i = j
              /\ \A files \in Reordered : FrameworkDetector_detect(files) = detected
              /\ parsed_files = <<>> => run.frameworks = <<>>
              /\ ImportedIdentifiers \cap {"axum", "actix_web"} = {} => run.frameworks = <<>>

\* three imports of axum in two trees
C23_Witness ==
    /\ run.pc = "detected"
    /\ parsed_files = <<FileAxumTwice, FileAxumApp>>
    /\ run.frameworks = <<"axum">>

----------------------------------------------------------------------------
(* Which declaration a name resolves to.                                   *)

\* the declarations of the kind and name: <<file, item>> positions
DeclaredAt(kind, name) ==
    {at \in UNION {{<<f, i>> : i \in 1..Len(type_files[f])} : f \in 1..Len(type_files)} :
        type_files[at[1]][at[2]].k = kind /\ type_files[at[1]][at[2]].ident = name}

\* the one among them that comes first: in the earliest tree, and first in it
FirstDeclared(kind, name) ==
    LET at == CHOOSE a \in DeclaredAt(kind, name) :
                  \A b \in DeclaredAt(kind, name) :
                      a[1] < b[1] \/ (a[1] = b[1] /\ a[2] <= b[2])
    IN  type_files[at[1]][at[2]]

\* C29: resolve_type gives a name of the primitive table its primitive, also
\* when a record or an enum of that name is declared; another name with a
\* record declaration in any tree the record, also when an enum of that name
\* is declared in an earlier tree; another name with an enum declaration the
\* enum; and among several declarations of the same kind and name the one
\* that comes first in tree input order.
C29_Precedence ==
    \A type_name \in TypeNames :
        LET result == Resolve(type_name).result
        IN  IF IsSome(TypeResolver_parse_primitive_type(type_name))
            THEN /\ IsSome(result)
                 /\ result[1].kind = "Primitive"
                 /\ result[1].def = TypeResolver_parse_primitive_type(type_name)[1]
            ELSE IF DeclaredAt("ItemStruct", type_name) # {}
            THEN /\ IsSome(result)
                 /\ result[1].kind = "Struct"
                 /\ result[1] = TypeResolver_parse_struct_definition(
                                    FirstDeclared("ItemStruct", type_name))
            ELSE IF DeclaredAt("ItemEnum", type_name) # {}
            THEN /\ IsSome(result)
                 /\ result[1].kind = "Enum"
                 /\ result[1].def = FirstDeclared("ItemEnum", type_name).variants
            ELSE result = None

\* resolve_type was called for u32, declared as a record, and then for User,
\* whose enum declaration precedes its record declaration
C29_Witness ==
    /\ type_files = FilesClash
    /\ Len(log) = 2
    /\ log[1].fn = "resolve_type" /\ log[1].arg = "u32"
    /\ log[1].value[1].kind = "Primitive"
    /\ log[2].fn = "resolve_type" /\ log[2].arg = "User"
    /\ log[2].value[1].kind = "Struct"
    /\ {"u32", "User"} \subseteq DOMAIN type_cache

----------------------------------------------------------------------------
(* The resolver's guard set.                                               *)

\* the names a session asks the resolver for: the requested ones, the
\* declared ones and the field types
ResolvedNames == TypeNames \cup RecordOrEnum \cup {"String", "Team", "B", "Id"}

\* C30: the guard set is empty whenever resolve_type is entered and whenever
\* it returns, in every sequence of calls, whoever makes them; hence no
\* resolve_type call returns the circular-reference placeholder.
C30_GuardEmpty ==
    /\ resolving_stack = {}
    /\ \A type_name \in ResolvedNames :
          LET r == Resolve(type_name)
          IN  /\ r.guard = {}
              /\ IsSome(r.result) =>
                    /\ r.result[1].kind \in {"Primitive", "Struct", "Enum"}
                    /\ r.result[1].name = type_name
    /\ \A i \in 1..Len(log) :
          (log[i].fn = "resolve_type" /\ IsSome(log[i].value)) =>
              log[i].value[1].kind # "Generic"

\* the generator is inside generate_struct_schema for B, called for a field
\* of A, which is a field type of B; resolve_type(A) gives the record
C30_Witness ==
    /\ type_files = FilesCycle
    /\ status = "running"
    /\ Len(stack) >= 4
    /\ \E i, j \in 1..Len(stack) :
          /\ i < j
          /\ stack[i].fn = "generate_struct_schema" /\ stack[i].arg = "B"
          /\ stack[j].fn = "generate_struct_schema" /\ stack[j].arg = "A"
    /\ "A" \in DOMAIN type_cache
    /\ Resolve("A").result[1].kind = "Struct"
    /\ resolving_stack = {}

----------------------------------------------------------------------------
(* Functions declared more than once.                                      *)

\* the signatures of the function declarations below the nodes, in depth-first
\* source order
RECURSIVE FnSigsInOrder(_)
FnSigsInOrder(nodes) ==
    IF nodes = <<>> THEN <<>>
    ELSE (IF Head(nodes).k = "ItemFn" THEN <<Head(nodes).sig>> ELSE <<>>)
         \o FnSigsInOrder(Children(Head(nodes))) \o FnSigsInOrder(Tail(nodes))

\* the signature of the last declaration of the name: trees in input order,
\* depth-first source order within a tree
LastDeclared(name) ==
    LET sigs == SelectSeq(FnSigsInOrder(AllItems), LAMBDA sig : sig.ident = name)
    IN  sigs[Len(sigs)]

\* C25: after the traversal the function table holds, for every declared
\* function name, one signature, that of the declaration visited last (trees
\* in input order, depth-first source order within a tree), also when several
\* declarations share the name; and pass 2 binds every route naming it to
\* that signature.
C25_LastDeclarationWins ==
    /\ (Traversed \/ pc = "done") =>
          /\ DOMAIN functions = {sig.ident : sig \in FnSigs(AllItems)}
          /\ \A name \in DOMAIN functions : functions[name] = LastDeclared(name)
    /\ pc = "done" =>
          \A i \in 1..Len(routes) :
              HandlerFound(routes[i]) =>
                  EnrichedFrom(routes[i], LastDeclared(routes[i].handler_name))

\* list_users is declared three times, twice in the second tree; the route
\* naming it has the body of the second tree's last declaration
C25_Witness ==
    /\ pc = "done"
    /\ framework = "axum"
    /\ parsed_files = <<FileHandlers, FileIndex>>
    /\ Cardinality(DeclaredSigs("list_users")) = 3
    /\ functions["list_users"].inputs = <<FnArgTyped(G("Json", T("Patch")))>>

----------------------------------------------------------------------------
(* The route calls of the chained-builder extractor.                        *)

\* every node below the given nodes, the nodes themselves included
RECURSIVE Nodes(_)
Nodes(nodes) ==
    IF nodes = <<>> THEN <<>>
    ELSE <<Head(nodes)>> \o Nodes(Children(Head(nodes))) \o Nodes(Tail(nodes))

IsStringLiteral(expr) == expr.k = "ExprLit" /\ expr.lit = "Str"

\* .route(<string literal>, m(h)) with m a method name and h a name
IsRouteCall(node) ==
    /\ node.k = "ExprMethodCall"
    /\ node.method = "route"
    /\ Len(node.args) = 2
    /\ IsStringLiteral(node.args[1])
    /\ node.args[2].k = "ExprCall"
    /\ node.args[2].func.k = "ExprPath"
    /\ IsSome(MethodOfAttribute(node.args[2].func.ident))
    /\ Len(node.args[2].args) >= 1
    /\ node.args[2].args[1].k = "ExprPath"

\* what the call declares
RouteCall(node) ==
    [path |-> node.args[1].value,
     method |-> MethodOfAttribute(node.args[2].func.ident)[1],
     handler_name |-> node.args[2].args[1].ident]

\* .m(<string literal>, h) and .m(h), with m a method name and h a name
IsShorthandCall(node) ==
    /\ node.k = "ExprMethodCall"
    /\ IsSome(MethodOfAttribute(node.method))
    /\ \/ Len(node.args) = 2 /\ IsStringLiteral(node.args[1]) /\ node.args[2].k = "ExprPath"
       \/ Len(node.args) = 1 /\ node.args[1].k = "ExprPath"

\* the number of positions of the sequence that hold x
Occurrences(seq, x) == Cardinality({i \in 1..Len(seq) : seq[i] = x})

C26_Step ==
    /\ (framework = "axum" /\ pc = "visit" /\ work # <<>> /\ Head(work).op = "visit"
        /\ IsRouteCall(Head(work).node)) =>
          /\ Len(routes') = Len(routes) + 1
          /\ SubSeq(routes', 1, Len(routes)) = routes
          /\ Declares(routes'[Len(routes')]) = RouteCall(Head(work).node)
    /\ (framework = "axum" /\ Traversed') =>
          LET nodes == Nodes(AllItems)
              calls_ == SelectSeq(nodes, IsRouteCall)
              emitting == SelectSeq(nodes, LAMBDA n : IsRouteCall(n) \/ IsShorthandCall(n))
          IN  /\ \A c \in 1..Len(calls_) :
                    Occurrences([r \in 1..Len(routes') |-> Declares(routes'[r])],
                                RouteCall(calls_[c]))
                        >= Occurrences(calls_, calls_[c])
              /\ (\A n \in 1..Len(nodes) :
                      nodes[n].k = "ExprMethodCall" =>
                          (nodes[n].method = "nest" \/ IsRouteCall(nodes[n])
                           \/ IsShorthandCall(nodes[n])))
                    => Len(routes') = Len(emitting)

C27_Step ==
    (framework = "axum" /\ pc = "visit" /\ work # <<>> /\ Head(work).op = "visit"
     /\ IsShorthandCall(Head(work).node)) =>
        LET node == Head(work).node
            route == routes'[Len(routes')]
        IN  /\ Len(routes') = Len(routes) + 1
            /\ SubSeq(routes', 1, Len(routes)) = routes
            /\ route.method = MethodOfAttribute(node.method)[1]
            /\ IF Len(node.args) = 2
               THEN /\ route.path = Join(current_prefix, node.args[1].value)
                    /\ route.handler_name = node.args[2].ident
               ELSE /\ route.path = current_prefix
                    /\ route.handler_name = node.args[1].ident

\* C27: in the chained-builder extractor the visit of a shorthand method call
\* (.get, .post, .put, .delete, .patch, .head, .options) adds exactly one
\* route in both forms: (path, handler) gives the visitor's current prefix
\* combined with the path, and the named handler; bare (handler) gives the
\* current prefix as the full path, and that handler.
C27_ShorthandCalls == [][C27_Step]_vars

\* .get("profile", get_user) and .post(create_user) of FileNestDeep have each
\* given a route
C27_Witness ==
    /\ framework = "axum"
    /\ Traversed
    /\ parsed_files = <<FileNestDeep>>
    /\ Len(routes) = 2
    /\ \E r \in 1..Len(routes) :
          /\ routes[r].path = PathProfile
          /\ routes[r].method = "Get"
          /\ routes[r].handler_name = "get_user"
    /\ \E r \in 1..Len(routes) :
          /\ routes[r].path = <<>>
          /\ routes[r].method = "Post"
          /\ routes[r].handler_name = "create_user"

----------------------------------------------------------------------------
(* The method attributes of the attribute-routing extractor.               *)

\* C28: in the attribute-routing extractor the visit of a function
\* declaration adds one route per method attribute (get, post, put, delete,
\* patch, head, options) of the function whose argument is one string
\* literal, in attribute order and whatever the literal's value: its path is
\* the current scope prefix combined with the literal, its method the
\* attribute's, its handler the function, and its parameters the path-derived
\* parameters of the combined path.
C28_Step ==
    (framework = "actix" /\ pc = "visit" /\ work # <<>> /\ Head(work).op = "visit"
     /\ Head(work).node.k = "ItemFn") =>
        LET declared == MethodAttributes(Head(work).node)
            expected == [a \in 1..Len(declared) |->
                            [declared[a] EXCEPT !.path = Join(current_scope, declared[a].path)]]
            added == SubSeq(routes', Len(routes) + 1, Len(routes'))
        IN  /\ SubSeq(routes', 1, Len(routes)) = routes
            /\ Len(added) <= Len(Head(work).node.attrs)
            /\ \A a \in 1..Len(expected) :
                  Occurrences([r \in 1..Len(added) |-> Declares(added[r])], expected[a])
                      >= Occurrences(expected, expected[a])
            /\ \A r \in 1..Len(added) :
                  LET names == SegmentNames(added[r].path, 1)
                  IN  /\ Len(added[r].parameters) = Len(names)
                      /\ \A n \in 1..Len(names) :
                            /\ added[r].parameters[n].name = names[n]
                            /\ added[r].parameters[n].location = "Path"

C28_MethodAttributes == [][C28_Step]_vars

============================================================================
